---- MODULE Spec2Model ----
(***************************************************************************)
(* The aap_inventory resource of terraform-provider-aap: the Create, Read, *)
(* Update and Delete handlers of aapInventoryResource, the AAPClient calls *)
(* they issue, and the remote inventory those calls act on.                *)
(*                                                                         *)
(* A handler is one action.  It is computed call by call by folding over   *)
(* the plan exactly as the Go loops do, threading a record that carries    *)
(* the remote state, the log of the calls issued so far, the handler's     *)
(* local slices and the first error.                                       *)
(***************************************************************************)
EXTENDS Integers, Sequences, FiniteSets, TLC

\* ------------------------------------------------------------------ universe

\* Group names, in the order the handlers iterate a set of names.
NameOrder == <<"A", "B", "C">>

GroupNames == {NameOrder[i] : i \in 1..Len(NameOrder)}

HostOrder == <<"H", "K">>

HostNames == {HostOrder[i] : i \in 1..Len(HostOrder)}

\* Number of results on the first page of a listing endpoint (scaled down).
PageSize == 2

\* Environment events (configuration edits, out-of-band deletions, failed
\* calls) in one life of the resource.
MaxEvents == 1

\* Handler invocations in one life of the resource.
MaxRuns == 3

\* ------------------------------------------------------------------ helpers

Range(seq) == {seq[i] : i \in 1..Len(seq)}

Min(a, b) == IF a < b THEN a ELSE b

\* The mapping m with k set to v.
Put(m, k, v) == [x \in DOMAIN m \cup {k} |-> IF x = k THEN v ELSE m[x]]

\* The elements of a set of names as a slice, in iteration order.
NameSeq(S) == SelectSeq(NameOrder, LAMBDA n : n \in S)

\* The records of S (each with an id, ids distinct) ordered by id.
RECURSIVE ById(_)
ById(S) ==
    IF S = {} THEN <<>>
    ELSE LET m == CHOOSE x \in S : \A y \in S : x.id <= y.id
         IN  <<m>> \o ById(S \ {m})

\* ------------------------------------------------------------------ client

\* A paged listing keeps the results of the first page only.
ParsePagedGroupsResponse(results) == SubSeq(results, 1, Min(Len(results), PageSize))

ParsePagedHostsResponse(results) == SubSeq(results, 1, Min(Len(results), PageSize))

\* Every 2xx status counts as a success.
aapSuccessCodes_Any2xx == 200..299

\* The statuses of a response that count as a success.
aapSuccessCodes == {200, 201, 202, 204}

NoBody == "nil"

NoError == [kind |-> "none", status |-> 0, body |-> NoBody]

\* fmt.Errorf("status: %d, body: %s", status, body)
StatusError(status, body) == [kind |-> "status", status |-> status, body |-> body]

\* The error of the transport, from sending the request or from reading the
\* body of the response.
TransportError(at) == [kind |-> at, status |-> 0, body |-> NoBody]

\* AAPClient.MakeRequest for one exchange with the gateway.  The error of
\* http.NewRequest is dropped: a request that cannot be built is nil, and
\* setting its headers panics, so that nothing is returned.
ClientMakeRequest(exchange) ==
    IF exchange.transport = "unbuilt"
    THEN [panic |-> TRUE, body |-> NoBody, err |-> NoError]
    ELSE IF exchange.transport \in {"do", "read"}
    THEN [panic |-> FALSE, body |-> NoBody, err |-> TransportError(exchange.transport)]
    ELSE IF exchange.status \notin aapSuccessCodes
    THEN [panic |-> FALSE, body |-> NoBody, err |-> StatusError(exchange.status, exchange.body)]
    ELSE [panic |-> FALSE, body |-> exchange.body, err |-> NoError]

\* The answer of a call: whether the status was a success, the remote state
\* after it, the id in the response body and the listed entities.
Answer(ok, r, ret, list) == [ok |-> ok, r |-> r, ret |-> ret, list |-> list]

Refused(r) == Answer(FALSE, r, 0, <<>>)

GroupIds(r) == {g.id : g \in r.groups}

HostIds(r) == {h.id : h \in r.hosts}

\* An inventory as a response body carries it: its id and its variables text.
Inventory(inv, variables) ==
    [id |-> inv, inventory |-> inv, name |-> "", description |-> "", variables |-> variables]

\* The server keeps the variables text of a request body as it came.
CreateInventory(r, body) ==
    Answer(TRUE,
           [r EXCEPT !.invs = @ \cup {r.nextInv}, !.nextInv = @ + 1,
                     !.invVars = Put(@, r.nextInv, body.variables)],
           r.nextInv, <<Inventory(r.nextInv, body.variables)>>)

UpdateInventory(r, inv, body) ==
    IF inv \in r.invs
    THEN Answer(TRUE, [r EXCEPT !.invVars = Put(@, inv, body.variables)],
                inv, <<Inventory(inv, body.variables)>>)
    ELSE Refused(r)

GetInventory(r, inv) ==
    IF inv \in r.invs THEN Answer(TRUE, r, inv, <<Inventory(inv, r.invVars[inv])>>)
    ELSE Refused(r)

\* Deleting an inventory deletes the groups and hosts it owns.
DeleteInventory(r, inv) ==
    IF inv \notin r.invs THEN Refused(r)
    ELSE LET gone  == {g.id : g \in {x \in r.groups : x.inventory = inv}}
             goneH == {h.id : h \in {x \in r.hosts : x.inventory = inv}}
         IN  Answer(TRUE,
                    [r EXCEPT !.invs = @ \ {inv},
                              !.invVars = [i \in DOMAIN @ \ {inv} |-> @[i]],
                              !.groups = {g \in @ : g.inventory # inv},
                              !.hosts = {h \in @ : h.inventory # inv},
                              !.children = {e \in @ : e[1] \notin gone /\ e[2] \notin gone},
                              !.hostGroups = {e \in @ : e[1] \notin goneH /\ e[2] \notin gone}],
                    inv, <<>>)

\* A group or host as the server keeps and lists it: the fields of the
\* request body under the id the server gave it.
Stored(id, body) ==
    [id |-> id, inventory |-> body.inventory, name |-> body.name,
     description |-> body.description, variables |-> body.variables]

CreateGroup(r, body) ==
    IF body.inventory \notin r.invs THEN Refused(r)
    ELSE Answer(TRUE,
                [r EXCEPT !.groups = @ \cup {Stored(r.nextGroup, body)},
                          !.nextGroup = @ + 1],
                r.nextGroup, <<>>)

UpdateGroup(r, id, body) ==
    IF id \notin GroupIds(r) \/ body.inventory \notin r.invs THEN Refused(r)
    ELSE Answer(TRUE,
                [r EXCEPT !.groups = {g \in @ : g.id # id} \cup {Stored(id, body)}],
                id, <<>>)

\* A deleted group is no longer a child of any group nor a group of any host.
DeleteGroup(r, id) ==
    IF id \notin GroupIds(r) THEN Refused(r)
    ELSE Answer(TRUE,
                [r EXCEPT !.groups = {g \in @ : g.id # id},
                          !.children = {e \in @ : e[1] # id /\ e[2] # id},
                          !.hostGroups = {e \in @ : e[2] # id}],
                id, <<>>)

CreateHost(r, body) ==
    IF body.inventory \notin r.invs THEN Refused(r)
    ELSE Answer(TRUE,
                [r EXCEPT !.hosts = @ \cup {Stored(r.nextHost, body)},
                          !.nextHost = @ + 1],
                r.nextHost, <<>>)

UpdateHost(r, id, body) ==
    IF id \notin HostIds(r) \/ body.inventory \notin r.invs THEN Refused(r)
    ELSE Answer(TRUE,
                [r EXCEPT !.hosts = {h \in @ : h.id # id} \cup {Stored(id, body)}],
                id, <<>>)

DeleteHost(r, id) ==
    IF id \notin HostIds(r) THEN Refused(r)
    ELSE Answer(TRUE,
                [r EXCEPT !.hosts = {h \in @ : h.id # id},
                          !.hostGroups = {e \in @ : e[1] # id}],
                id, <<>>)

\* A listing that leaves out the inventory of the URL: every group of the
\* server is listed.
GetInventoryGroups_All(r, inv) ==
    IF inv \notin r.invs THEN Refused(r)
    ELSE Answer(TRUE, r, 0, ParsePagedGroupsResponse(ById(r.groups)))

GetInventoryGroups(r, inv) ==
    IF inv \notin r.invs THEN Refused(r)
    ELSE Answer(TRUE, r, 0,
                ParsePagedGroupsResponse(ById({g \in r.groups : g.inventory = inv})))

GetInventoryHosts(r, inv) ==
    IF inv \notin r.invs THEN Refused(r)
    ELSE Answer(TRUE, r, 0,
                ParsePagedHostsResponse(ById({h \in r.hosts : h.inventory = inv})))

GetGroupChildren(r, id) ==
    IF id \notin GroupIds(r) THEN Refused(r)
    ELSE Answer(TRUE, r, 0,
                ParsePagedGroupsResponse(ById({g \in r.groups : <<id, g.id>> \in r.children})))

GetHostGroups(r, id) ==
    IF id \notin HostIds(r) THEN Refused(r)
    ELSE Answer(TRUE, r, 0,
                ParsePagedGroupsResponse(ById({g \in r.groups : <<id, g.id>> \in r.hostGroups})))

AddChildToGroup(r, groupId, childGroupId) ==
    IF groupId \notin GroupIds(r) \/ childGroupId \notin GroupIds(r) THEN Refused(r)
    ELSE Answer(TRUE, [r EXCEPT !.children = @ \cup {<<groupId, childGroupId>>}], 0, <<>>)

RemoveChildFromGroup(r, groupId, childGroupId) ==
    IF groupId \notin GroupIds(r) \/ childGroupId \notin GroupIds(r) THEN Refused(r)
    ELSE Answer(TRUE, [r EXCEPT !.children = @ \ {<<groupId, childGroupId>>}], 0, <<>>)

AddGroupToHost(r, hostId, groupId) ==
    IF hostId \notin HostIds(r) \/ groupId \notin GroupIds(r) THEN Refused(r)
    ELSE Answer(TRUE, [r EXCEPT !.hostGroups = @ \cup {<<hostId, groupId>>}], 0, <<>>)

RemoveGroupFromHost(r, hostId, groupId) ==
    IF hostId \notin HostIds(r) \/ groupId \notin GroupIds(r) THEN Refused(r)
    ELSE Answer(TRUE, [r EXCEPT !.hostGroups = @ \ {<<hostId, groupId>>}], 0, <<>>)

\* Invocations that run at the same time share the server.  Each of them
\* blocks in its request until the response is there, and the server takes
\* the requests one at a time, so an invocation is at one of its calls.
VARIABLES
    turn,       \* the invocation whose next request the server takes (0: one handler at a time)
    delivered   \* per invocation, its requests so far with the responses it got

\* One request of a handler.  s is the handler's thread: the remote state r,
\* the calls issued so far, the first error, and failAt, the position of the
\* call whose transport fails (0: none).  The call is logged; it errs when
\* the transport fails or the status is no success, and then changes nothing.
\* A request that is sent whether or not the handler has already failed.
MakeRequest_Regardless(s, op, a, b, name, answer) ==
    LET failed == (Len(s.calls) + 1 = s.failAt) \/ ~answer.ok
        call == [op |-> op, a |-> a, b |-> b, name |-> name,
                 ok |-> ~failed,
                 ret |-> IF failed THEN 0 ELSE answer.ret,
                 list |-> IF failed THEN <<>> ELSE answer.list]
    IN  [s EXCEPT !.calls = Append(@, call),
                  !.err = IF failed THEN "call" ELSE @,
                  !.errAt = IF failed /\ s.err = "" THEN Len(s.calls) + 1 ELSE @,
                  !.r = IF failed THEN @ ELSE answer.r]

\* Among invocations that run at the same time a handler is followed up to
\* its next request: the requests before it have the responses they got, and
\* at the request after it the handler is blocked.
MakeRequest(s, op, a, b, name, answer) ==
    IF s.err # "" THEN s
    ELSE IF turn # 0 /\ Len(s.calls) < Len(delivered[turn])
    THEN [s EXCEPT !.calls = Append(@, delivered[turn][Len(s.calls) + 1])]
    ELSE IF turn # 0 /\ Len(s.calls) > Len(delivered[turn])
    THEN [s EXCEPT !.err = "blocked"]
    ELSE LET failed == (Len(s.calls) + 1 = s.failAt) \/ ~answer.ok
             call == [op |-> op, a |-> a, b |-> b, name |-> name,
                      ok |-> ~failed,
                      ret |-> IF failed THEN 0 ELSE answer.ret,
                      list |-> IF failed THEN <<>> ELSE answer.list]
         IN  [s EXCEPT !.calls = Append(@, call),
                       !.err = IF failed THEN "call" ELSE "",
                       !.errAt = IF failed THEN Len(s.calls) + 1 ELSE @,
                       !.r = IF failed THEN @ ELSE answer.r]

\* The answer of the thread's latest call.
Last(s) == s.calls[Len(s.calls)]

\* The handler adds an error to its diagnostics and returns: the number of
\* calls it has issued by then is kept with the kind of the error.
AddError(s, kind) == [s EXCEPT !.err = kind, !.errAt = Len(s.calls)]

Thread(r, failAt) ==
    [r |-> r, calls |-> <<>>, err |-> "", errAt |-> 0, failAt |-> failAt, inv |-> 0,
     groups |-> <<>>, hosts |-> <<>>, current |-> <<>>, currentHosts |-> <<>>]

\* ------------------------------------------------------------------ resource

\* ---- variables

\* Keys and values of variables mappings, keys in sorted order.
VarKeys == <<"a", "b", "c">>

VarValues == {"", "x", "y"}

\* A map attribute of the schema: null, or a known mapping (the empty one
\* included) from keys to strings.
EmptyMap == [k \in {} |-> ""]

MapNull == [null |-> TRUE, elems |-> EmptyMap]

MapValue(f) == [null |-> FALSE, elems |-> f]

\* JSON text as its tokens; the empty string is the empty sequence.
Tok(t, s) == [t |-> t, s |-> s]

LBrace == Tok("{", "")

RBrace == Tok("}", "")

Colon == Tok(":", "")

Comma == Tok(",", "")

JsonNull == Tok("null", "")

JsonString(s) == Tok("string", s)

JsonNumber == Tok("number", "1")

\* json.Marshal of a map[string]string: null for a nil map, else the
\* object of its entries with the keys sorted.
RECURSIVE MarshalEntries(_, _, _)
MarshalEntries(m, i, first) ==
    IF i > Len(VarKeys) THEN <<>>
    ELSE IF VarKeys[i] \notin DOMAIN m THEN MarshalEntries(m, i + 1, first)
    ELSE (IF first THEN <<>> ELSE <<Comma>>)
             \o <<JsonString(VarKeys[i]), Colon, JsonString(m[VarKeys[i]])>>
             \o MarshalEntries(m, i + 1, FALSE)

JsonMarshal(isNil, m) ==
    IF isNil THEN <<JsonNull>> ELSE <<LBrace>> \o MarshalEntries(m, 1, TRUE) \o <<RBrace>>

\* Converts variables from a map attribute to a JSON encoded string.
\* ElementsAs leaves a nil map for a null attribute.
VariablesMapToString(resourceVariables) ==
    JsonMarshal(resourceVariables.null, resourceVariables.elems)

\* The members of a JSON object from token i on, into a map[string]string:
\* a later entry of a key replaces an earlier one, a null value leaves the
\* empty string, any other value that is no string is an error.
RECURSIVE UnmarshalMembers(_, _, _)
UnmarshalMembers(text, i, m) ==
    IF i + 3 > Len(text) \/ text[i].t # "string" \/ text[i + 1] # Colon
       \/ text[i + 2].t \notin {"string", "null"}
    THEN [err |-> TRUE, m |-> EmptyMap]
    ELSE LET m1 == Put(m, text[i].s, text[i + 2].s)
         IN  IF text[i + 3] = RBrace
             THEN [err |-> i + 3 # Len(text), m |-> IF i + 3 # Len(text) THEN EmptyMap ELSE m1]
             ELSE IF text[i + 3] = Comma THEN UnmarshalMembers(text, i + 4, m1)
             ELSE [err |-> TRUE, m |-> EmptyMap]

\* json.Unmarshal into a map[string]string.
JsonUnmarshal(text) ==
    IF text = <<>> THEN [err |-> TRUE, m |-> EmptyMap]
    ELSE IF text = <<JsonNull>> \/ text = <<LBrace, RBrace>> THEN [err |-> FALSE, m |-> EmptyMap]
    ELSE IF text[1] # LBrace THEN [err |-> TRUE, m |-> EmptyMap]
    ELSE UnmarshalMembers(text, 2, EmptyMap)

\* A decoding that takes a mapping of one entry for an empty one.
VariablesStringToMap_OneIsEmpty(variables) ==
    LET parsed == JsonUnmarshal(variables)
    IN  [err |-> parsed.err,
         value |-> IF ~parsed.err /\ Cardinality(DOMAIN parsed.m) > 1
                   THEN MapValue(parsed.m) ELSE MapNull]

\* Converts variables from a JSON encoded string to a map attribute: null on
\* an error and for a mapping without entries.
\* A decoding that reports no error: a text that does not parse decodes as
\* the absent mapping does.
VariablesStringToMap_Silent(variables) ==
    [err |-> FALSE,
     value |-> IF ~JsonUnmarshal(variables).err /\ DOMAIN JsonUnmarshal(variables).m # {}
               THEN MapValue(JsonUnmarshal(variables).m) ELSE MapNull]

VariablesStringToMap(variables) ==
    LET parsed == JsonUnmarshal(variables)
    IN  [err |-> parsed.err,
         value |-> IF ~parsed.err /\ DOMAIN parsed.m # {} THEN MapValue(parsed.m) ELSE MapNull]

\* A lookup that hands back the position of the match in the slice, not its id.
GroupIdFromName_Position(name, groups) ==
    LET hits == {i \in 1..Len(groups) : groups[i].name = name}
    IN  IF hits = {} THEN [err |-> TRUE, id |-> 0, named |-> name]
        ELSE [err |-> FALSE, id |-> CHOOSE i \in hits : \A j \in hits : i <= j, named |-> ""]

\* A lookup that hands back id 0 and no error when no group has the name.
GroupIdFromName_Unchecked(name, groups) ==
    LET hits == {i \in 1..Len(groups) : groups[i].name = name}
    IN  IF hits = {} THEN [err |-> FALSE, id |-> 0, named |-> ""]
        ELSE [err |-> FALSE, id |-> groups[CHOOSE i \in hits : \A j \in hits : i <= j].id,
              named |-> ""]

\* A lookup in which the last group of the name wins.
GroupIdFromName_LastMatch(name, groups) ==
    LET hits == {i \in 1..Len(groups) : groups[i].name = name}
    IN  IF hits = {} THEN [err |-> TRUE, id |-> 0, named |-> name]
        ELSE [err |-> FALSE, id |-> groups[CHOOSE i \in hits : \A j \in hits : i >= j].id,
              named |-> ""]

\* The id of the first group of the slice with this name, or id 0 and an
\* error that names the name.
GroupIdFromName(name, groups) ==
    LET hits == {i \in 1..Len(groups) : groups[i].name = name}
    IN  IF hits = {} THEN [err |-> TRUE, id |-> 0, named |-> name]
        ELSE [err |-> FALSE, id |-> groups[CHOOSE i \in hits : \A j \in hits : i <= j].id,
              named |-> ""]

\* An optional set of names of the schema: null, or the set.
NullSet == [null |-> TRUE, elems |-> {}]

SetValue(S) == [null |-> FALSE, elems |-> S]

\* An optional string of the schema: null, or the string.
StringNull == [null |-> TRUE, value |-> ""]

StringValue(str) == [null |-> FALSE, value |-> str]

\* The request model of a group or a host of the plan in this inventory: the
\* id is not known yet, the variables are encoded.
\* A request model that names the inventory the server had first.
AapGroup_Elsewhere(inv, g) ==
    [id |-> 0, inventory |-> 1, name |-> g.name, children |-> g.children,
     description |-> g.description, variables |-> VariablesMapToString(g.variables)]

AapGroup(inv, g) ==
    [id |-> 0, inventory |-> inv, name |-> g.name, children |-> g.children,
     description |-> g.description, variables |-> VariablesMapToString(g.variables)]

AapHost(inv, h) ==
    [id |-> 0, inventory |-> inv, name |-> h.name, groups |-> h.groups,
     description |-> h.description, variables |-> VariablesMapToString(h.variables)]

AapInventory(plan) == [variables |-> VariablesMapToString(plan.variables)]

\* Groups as schema objects that are given every attribute as it is, empty or not.
GroupsToSchema_Plain(groups) ==
    [i \in 1..Len(groups) |->
        [id |-> groups[i].id, inventory |-> groups[i].inventory, name |-> groups[i].name,
         children |-> SetValue(groups[i].children),
         description |-> StringValue(groups[i].description),
         variables |-> MapValue(VariablesStringToMap(groups[i].variables).value.elems)]]

\* Groups as schema objects: an empty children list, an empty description
\* and variables without entries stay null.
GroupsToSchema(groups) ==
    [i \in 1..Len(groups) |->
        [id |-> groups[i].id, inventory |-> groups[i].inventory, name |-> groups[i].name,
         children |-> IF Cardinality(groups[i].children) > 0
                      THEN SetValue(groups[i].children) ELSE NullSet,
         description |-> IF groups[i].description # ""
                         THEN StringValue(groups[i].description) ELSE StringNull,
         variables |-> VariablesStringToMap(groups[i].variables).value]]

HostsToSchema(hosts) ==
    [i \in 1..Len(hosts) |->
        [id |-> hosts[i].id, inventory |-> hosts[i].inventory, name |-> hosts[i].name,
         groups |-> IF Cardinality(hosts[i].groups) > 0
                    THEN SetValue(hosts[i].groups) ELSE NullSet,
         description |-> IF hosts[i].description # ""
                         THEN StringValue(hosts[i].description) ELSE StringNull,
         variables |-> VariablesStringToMap(hosts[i].variables).value]]

\* The conversion stops the handler when the variables of a group (host) do
\* not decode.
GroupsToSchemaStep(s) ==
    IF s.err # "" THEN s
    ELSE IF \E i \in 1..Len(s.groups) : VariablesStringToMap(s.groups[i].variables).err
    THEN AddError(s, "codec")
    ELSE s

HostsToSchemaStep(s) ==
    IF s.err # "" THEN s
    ELSE IF \E i \in 1..Len(s.hosts) : VariablesStringToMap(s.hosts[i].variables).err
    THEN AddError(s, "codec")
    ELSE s

\* What a handler hands back: its thread and the state it sets (none on error).
NoState == [id |-> 0, groups |-> <<>>, hosts |-> <<>>]

Outcome(s) ==
    [s |-> s,
     state |-> IF s.err # "" THEN NoState
               ELSE [id |-> s.inv, groups |-> GroupsToSchema(s.groups),
                     hosts |-> HostsToSchema(s.hosts)]]

\* ---- Create

\* The variables of the inventory in the response of the latest call do not decode.
VariablesError(s) == VariablesStringToMap(Last(s).list[1].variables).err

CreateInventoryStep(s, plan) ==
    LET s1 == MakeRequest(s, "CreateInventory", 0, 0, "",
                          CreateInventory(s.r, AapInventory(plan)))
    IN  IF s1.err # "" THEN s1
        ELSE IF VariablesError(s1) THEN AddError(s1, "codec")
        ELSE [s1 EXCEPT !.inv = Last(s1).ret]

RECURSIVE CreateGroups(_, _, _)
CreateGroups(s, planGroups, i) ==
    IF s.err # "" \/ i > Len(planGroups) THEN s
    ELSE LET g == planGroups[i]
             body == AapGroup(s.inv, g)
             s1 == MakeRequest(s, "CreateGroup", s.inv, 0, g.name, CreateGroup(s.r, body))
             group == [body EXCEPT !.id = Last(s1).ret]
         IN  IF s1.err # "" THEN s1
             ELSE CreateGroups([s1 EXCEPT !.groups = Append(@, group)], planGroups, i + 1)

\* An add pass that passes over a child no created group is named after.
RECURSIVE CreateChildrenOf_Skip(_, _, _, _)
CreateChildrenOf_Skip(s, parentId, names, j) ==
    IF s.err # "" \/ j > Len(names) THEN s
    ELSE LET child == GroupIdFromName(names[j], s.groups)
         IN  IF child.err THEN CreateChildrenOf_Skip(s, parentId, names, j + 1)
             ELSE CreateChildrenOf_Skip(
                      MakeRequest(s, "AddChildToGroup", parentId, child.id, names[j],
                                  AddChildToGroup(s.r, parentId, child.id)),
                      parentId, names, j + 1)

\* Add all children to parent groups: one parent's children.
RECURSIVE CreateChildrenOf(_, _, _, _)
CreateChildrenOf(s, parentId, names, j) ==
    IF s.err # "" \/ j > Len(names) THEN s
    ELSE LET child == GroupIdFromName(names[j], s.groups)
         IN  IF child.err THEN AddError(s, "resolve")
             ELSE CreateChildrenOf(
                      MakeRequest(s, "AddChildToGroup", parentId, child.id, names[j],
                                  AddChildToGroup(s.r, parentId, child.id)),
                      parentId, names, j + 1)

RECURSIVE CreateChildren(_, _)
CreateChildren(s, i) ==
    IF s.err # "" \/ i > Len(s.groups) THEN s
    ELSE CreateChildren(
             CreateChildrenOf(s, s.groups[i].id, NameSeq(s.groups[i].children), 1), i + 1)

RECURSIVE CreateHosts(_, _, _)
CreateHosts(s, planHosts, i) ==
    IF s.err # "" \/ i > Len(planHosts) THEN s
    ELSE LET h == planHosts[i]
             body == AapHost(s.inv, h)
             s1 == MakeRequest(s, "CreateHost", s.inv, 0, h.name, CreateHost(s.r, body))
             host == [body EXCEPT !.id = Last(s1).ret]
         IN  IF s1.err # "" THEN s1
             ELSE CreateHosts([s1 EXCEPT !.hosts = Append(@, host)], planHosts, i + 1)

RECURSIVE CreateHostGroupsOf(_, _, _, _)
CreateHostGroupsOf(s, hostId, names, j) ==
    IF s.err # "" \/ j > Len(names) THEN s
    ELSE LET group == GroupIdFromName(names[j], s.groups)
         IN  IF group.err THEN AddError(s, "resolve")
             ELSE CreateHostGroupsOf(
                      MakeRequest(s, "AddGroupToHost", hostId, group.id, names[j],
                                  AddGroupToHost(s.r, hostId, group.id)),
                      hostId, names, j + 1)

RECURSIVE CreateHostGroups(_, _)
CreateHostGroups(s, i) ==
    IF s.err # "" \/ i > Len(s.hosts) THEN s
    ELSE CreateHostGroups(
             CreateHostGroupsOf(s, s.hosts[i].id, NameSeq(s.hosts[i].groups), 1), i + 1)

\* A Create that creates the hosts before it associates the children.
CreateHandler_HostsEarly(plan, r, failAt) ==
    LET s1 == CreateInventoryStep(Thread(r, failAt), plan)
        s2 == CreateGroups(s1, plan.groups, 1)
        s3 == CreateHosts(s2, plan.hosts, 1)
        s4 == GroupsToSchemaStep(CreateChildren(s3, 1))
        s5 == HostsToSchemaStep(CreateHostGroups(s4, 1))
    IN  Outcome(s5)

\* aapInventoryResource.Create on this plan, against remote state r.
CreateHandler(plan, r, failAt) ==
    LET s1 == CreateInventoryStep(Thread(r, failAt), plan)
        s2 == CreateGroups(s1, plan.groups, 1)
        s3 == GroupsToSchemaStep(CreateChildren(s2, 1))
        s4 == CreateHosts(s3, plan.hosts, 1)
        s5 == HostsToSchemaStep(CreateHostGroups(s4, 1))
    IN  Outcome(s5)

\* ---- Update

UpdateInventoryStep_Lenient(s, plan) ==
    LET s1 == MakeRequest(s, "UpdateInventory", plan.id, 0, "",
                          UpdateInventory(s.r, plan.id, AapInventory(plan)))
    IN  IF s1.err # "" THEN [s1 EXCEPT !.err = "", !.inv = plan.id]
        ELSE IF VariablesError(s1) THEN AddError(s1, "codec")
        ELSE [s1 EXCEPT !.inv = Last(s1).ret]

UpdateInventoryStep(s, plan) ==
    LET s1 == MakeRequest(s, "UpdateInventory", plan.id, 0, "",
                          UpdateInventory(s.r, plan.id, AapInventory(plan)))
    IN  IF s1.err # "" THEN s1
        ELSE IF VariablesError(s1) THEN AddError(s1, "codec")
        ELSE [s1 EXCEPT !.inv = Last(s1).ret]

\* Get inventory's current groups (inventoryId is the id of the plan).
CurrentGroupsStep(s, plan) ==
    LET s1 == MakeRequest(s, "GetInventoryGroups", plan.id, 0, "",
                          GetInventoryGroups(s.r, plan.id))
    IN  IF s1.err # "" THEN s1 ELSE [s1 EXCEPT !.current = Last(s1).list]

\* A group pass that creates every group of the plan anew.
RECURSIVE UpdateGroups_AlwaysCreate(_, _, _)
UpdateGroups_AlwaysCreate(s, planGroups, i) ==
    IF s.err # "" \/ i > Len(planGroups) THEN s
    ELSE LET g == planGroups[i]
             body == AapGroup(s.inv, g)
             s1 == MakeRequest(s, "CreateGroup", s.inv, 0, g.name, CreateGroup(s.r, body))
             group == [body EXCEPT !.id = Last(s1).ret]
         IN  IF s1.err # "" THEN s1
             ELSE UpdateGroups_AlwaysCreate([s1 EXCEPT !.groups = Append(@, group)],
                                            planGroups, i + 1)

\* Create or update groups in plan: a group whose id is not among the
\* current groups is created, any other is updated by its id.
RECURSIVE UpdateGroups(_, _, _)
UpdateGroups(s, planGroups, i) ==
    IF s.err # "" \/ i > Len(planGroups) THEN s
    ELSE LET g == planGroups[i]
             groupIndex == {k \in 1..Len(s.current) : s.current[k].id = g.id}
             body == AapGroup(s.inv, g)
             s1 == IF groupIndex = {}
                   THEN MakeRequest(s, "CreateGroup", s.inv, 0, g.name, CreateGroup(s.r, body))
                   ELSE MakeRequest(s, "UpdateGroup", s.inv, g.id, g.name,
                                    UpdateGroup(s.r, g.id, body))
             group == [body EXCEPT !.id = Last(s1).ret]
         IN  IF s1.err # "" THEN s1
             ELSE UpdateGroups([s1 EXCEPT !.groups = Append(@, group)], planGroups, i + 1)

\* A delete pass that matches current groups against the plan by name.
RECURSIVE DeleteGroups_ByName(_, _)
DeleteGroups_ByName(s, k) ==
    IF s.err # "" \/ k > Len(s.current) THEN s
    ELSE LET currentGroup == s.current[k]
             groupIndex == {i \in 1..Len(s.groups) : s.groups[i].name = currentGroup.name}
         IN  DeleteGroups_ByName(
                 IF groupIndex = {}
                 THEN MakeRequest(s, "DeleteGroup", currentGroup.id, 0, currentGroup.name,
                                  DeleteGroup(s.r, currentGroup.id))
                 ELSE s,
                 k + 1)

\* If any current inventory groups are not in updated plan groups, delete them.
RECURSIVE DeleteGroups(_, _)
DeleteGroups(s, k) ==
    IF s.err # "" \/ k > Len(s.current) THEN s
    ELSE LET currentGroup == s.current[k]
             groupIndex == {i \in 1..Len(s.groups) : s.groups[i].id = currentGroup.id}
         IN  DeleteGroups(
                 IF groupIndex = {}
                 THEN MakeRequest(s, "DeleteGroup", currentGroup.id, 0, currentGroup.name,
                                  DeleteGroup(s.r, currentGroup.id))
                 ELSE s,
                 k + 1)

\* An add pass that does not look at the current children.
RECURSIVE AddChildren_Always(_, _, _, _, _)
AddChildren_Always(s, groupId, names, currentChildren, j) ==
    IF s.err # "" \/ j > Len(names) THEN s
    ELSE LET child == GroupIdFromName(names[j], s.groups)
         IN  IF child.err THEN AddError(s, "resolve")
             ELSE AddChildren_Always(
                      MakeRequest(s, "AddChildToGroup", groupId, child.id, names[j],
                                  AddChildToGroup(s.r, groupId, child.id)),
                      groupId, names, currentChildren, j + 1)

\* If any updated children are not in current children, add them to group.
RECURSIVE AddChildren(_, _, _, _, _)
AddChildren(s, groupId, names, currentChildren, j) ==
    IF s.err # "" \/ j > Len(names) THEN s
    ELSE LET childIndex == {k \in 1..Len(currentChildren) : currentChildren[k].name = names[j]}
             child == GroupIdFromName(names[j], s.groups)
         IN  IF childIndex # {} THEN AddChildren(s, groupId, names, currentChildren, j + 1)
             ELSE IF child.err THEN AddError(s, "resolve")
             ELSE AddChildren(
                      MakeRequest(s, "AddChildToGroup", groupId, child.id, names[j],
                                  AddChildToGroup(s.r, groupId, child.id)),
                      groupId, names, currentChildren, j + 1)

\* A removal pass that looks the id of the child up by its name among the
\* desired groups.
RECURSIVE RemoveChildren_ByName(_, _, _, _, _)
RemoveChildren_ByName(s, groupId, children, currentChildren, k) ==
    IF s.err # "" \/ k > Len(currentChildren) THEN s
    ELSE LET child == currentChildren[k]
             found == GroupIdFromName(child.name, s.groups)
         IN  RemoveChildren_ByName(
                 IF child.name \in children THEN s
                 ELSE IF found.err THEN AddError(s, "resolve")
                 ELSE MakeRequest(s, "RemoveChildFromGroup", groupId, found.id, child.name,
                                  RemoveChildFromGroup(s.r, groupId, found.id)),
                 groupId, children, currentChildren, k + 1)

\* If any current children are not in updated children, remove them from group.
RECURSIVE RemoveChildren(_, _, _, _, _)
RemoveChildren(s, groupId, children, currentChildren, k) ==
    IF s.err # "" \/ k > Len(currentChildren) THEN s
    ELSE LET child == currentChildren[k]
         IN  RemoveChildren(
                 IF child.name \notin children
                 THEN MakeRequest(s, "RemoveChildFromGroup", groupId, child.id, child.name,
                                  RemoveChildFromGroup(s.r, groupId, child.id))
                 ELSE s,
                 groupId, children, currentChildren, k + 1)

\* A pass over the parent groups that fetches the children of each again
\* after it has added and removed, and keeps the fetched names.
RECURSIVE UpdateChildren_Fresh(_, _)
UpdateChildren_Fresh(s, i) ==
    IF s.err # "" \/ i > Len(s.groups) THEN s
    ELSE LET group == s.groups[i]
             s1 == MakeRequest(s, "GetGroupChildren", group.id, 0, group.name,
                               GetGroupChildren(s.r, group.id))
             currentChildren == Last(s1).list
             s2 == AddChildren(s1, group.id, NameSeq(group.children), currentChildren, 1)
             s3 == RemoveChildren(s2, group.id, group.children, currentChildren, 1)
             s4 == MakeRequest(s3, "GetGroupChildren", group.id, 0, group.name,
                               GetGroupChildren(s3.r, group.id))
         IN  IF s1.err # "" THEN s1
             ELSE IF s4.err # "" THEN s4
             ELSE UpdateChildren_Fresh(
                      [s4 EXCEPT !.groups[i].children =
                          {Last(s4).list[k].name : k \in 1..Len(Last(s4).list)}], i + 1)

\* Ensure all parent groups have updated children.
RECURSIVE UpdateChildren(_, _)
UpdateChildren(s, i) ==
    IF s.err # "" \/ i > Len(s.groups) THEN s
    ELSE LET group == s.groups[i]
             s1 == MakeRequest(s, "GetGroupChildren", group.id, 0, group.name,
                               GetGroupChildren(s.r, group.id))
             currentChildren == Last(s1).list
             s2 == AddChildren(s1, group.id, NameSeq(group.children), currentChildren, 1)
             s3 == RemoveChildren(s2, group.id, group.children, currentChildren, 1)
         IN  IF s1.err # "" THEN s1 ELSE UpdateChildren(s3, i + 1)

CurrentHostsStep(s, plan) ==
    LET s1 == MakeRequest(s, "GetInventoryHosts", plan.id, 0, "",
                          GetInventoryHosts(s.r, plan.id))
    IN  IF s1.err # "" THEN s1 ELSE [s1 EXCEPT !.currentHosts = Last(s1).list]

\* A host pass that creates every host of the plan anew.
RECURSIVE UpdateHosts_AlwaysCreate(_, _, _)
UpdateHosts_AlwaysCreate(s, planHosts, i) ==
    IF s.err # "" \/ i > Len(planHosts) THEN s
    ELSE LET h == planHosts[i]
             body == AapHost(s.inv, h)
             s1 == MakeRequest(s, "CreateHost", s.inv, 0, h.name, CreateHost(s.r, body))
             host == [body EXCEPT !.id = Last(s1).ret]
         IN  IF s1.err # "" THEN s1
             ELSE UpdateHosts_AlwaysCreate([s1 EXCEPT !.hosts = Append(@, host)],
                                           planHosts, i + 1)

RECURSIVE UpdateHosts(_, _, _)
UpdateHosts(s, planHosts, i) ==
    IF s.err # "" \/ i > Len(planHosts) THEN s
    ELSE LET h == planHosts[i]
             hostIndex == {k \in 1..Len(s.currentHosts) : s.currentHosts[k].id = h.id}
             body == AapHost(s.inv, h)
             s1 == IF hostIndex = {}
                   THEN MakeRequest(s, "CreateHost", s.inv, 0, h.name, CreateHost(s.r, body))
                   ELSE MakeRequest(s, "UpdateHost", s.inv, h.id, h.name,
                                    UpdateHost(s.r, h.id, body))
             host == [body EXCEPT !.id = Last(s1).ret]
         IN  IF s1.err # "" THEN s1
             ELSE UpdateHosts([s1 EXCEPT !.hosts = Append(@, host)], planHosts, i + 1)

\* If any current inventory hosts are not in updated plan hosts, delete them.
RECURSIVE DeleteHosts(_, _)
DeleteHosts(s, k) ==
    IF s.err # "" \/ k > Len(s.currentHosts) THEN s
    ELSE LET currentHost == s.currentHosts[k]
             hostIndex == {i \in 1..Len(s.hosts) : s.hosts[i].id = currentHost.id}
         IN  DeleteHosts(
                 IF hostIndex = {}
                 THEN MakeRequest(s, "DeleteHost", currentHost.id, 0, currentHost.name,
                                  DeleteHost(s.r, currentHost.id))
                 ELSE s,
                 k + 1)

\* An add pass that looks the group up among the current groups of the server.
RECURSIVE AddHostGroups_Current(_, _, _, _, _)
AddHostGroups_Current(s, hostId, names, currentHostGroups, j) ==
    IF s.err # "" \/ j > Len(names) THEN s
    ELSE LET groupIndex == {k \in 1..Len(currentHostGroups) : currentHostGroups[k].name = names[j]}
             hostGroup == GroupIdFromName(names[j], s.current)
         IN  IF groupIndex # {} THEN AddHostGroups_Current(s, hostId, names, currentHostGroups, j + 1)
             ELSE IF hostGroup.err THEN AddError(s, "resolve")
             ELSE AddHostGroups_Current(
                      MakeRequest(s, "AddGroupToHost", hostId, hostGroup.id, names[j],
                                  AddGroupToHost(s.r, hostId, hostGroup.id)),
                      hostId, names, currentHostGroups, j + 1)

\* If any updated host groups are not in current host groups, add them to host.
RECURSIVE AddHostGroups(_, _, _, _, _)
AddHostGroups(s, hostId, names, currentHostGroups, j) ==
    IF s.err # "" \/ j > Len(names) THEN s
    ELSE LET groupIndex == {k \in 1..Len(currentHostGroups) : currentHostGroups[k].name = names[j]}
             hostGroup == GroupIdFromName(names[j], s.groups)
         IN  IF groupIndex # {} THEN AddHostGroups(s, hostId, names, currentHostGroups, j + 1)
             ELSE IF hostGroup.err THEN AddError(s, "resolve")
             ELSE AddHostGroups(
                      MakeRequest(s, "AddGroupToHost", hostId, hostGroup.id, names[j],
                                  AddGroupToHost(s.r, hostId, hostGroup.id)),
                      hostId, names, currentHostGroups, j + 1)

\* A host that keeps every group it is in.
RemoveHostGroups_Skipped(s, hostId, groups, currentHostGroups, k) == s

\* If any current host groups are not in updated host groups, remove them from host.
RECURSIVE RemoveHostGroups(_, _, _, _, _)
RemoveHostGroups(s, hostId, groups, currentHostGroups, k) ==
    IF s.err # "" \/ k > Len(currentHostGroups) THEN s
    ELSE LET hostGroup == currentHostGroups[k]
         IN  RemoveHostGroups(
                 IF hostGroup.name \notin groups
                 THEN MakeRequest(s, "RemoveGroupFromHost", hostId, hostGroup.id, hostGroup.name,
                                  RemoveGroupFromHost(s.r, hostId, hostGroup.id))
                 ELSE s,
                 hostId, groups, currentHostGroups, k + 1)

\* Ensure all hosts have updated groups.
RECURSIVE UpdateHostGroups(_, _)
UpdateHostGroups(s, i) ==
    IF s.err # "" \/ i > Len(s.hosts) THEN s
    ELSE LET host == s.hosts[i]
             s1 == MakeRequest(s, "GetHostGroups", host.id, 0, host.name,
                               GetHostGroups(s.r, host.id))
             currentHostGroups == Last(s1).list
             s2 == AddHostGroups(s1, host.id, NameSeq(host.groups), currentHostGroups, 1)
             s3 == RemoveHostGroups(s2, host.id, host.groups, currentHostGroups, 1)
         IN  IF s1.err # "" THEN s1 ELSE UpdateHostGroups(s3, i + 1)

\* An Update that deletes the groups that are no longer desired after it has
\* brought the children of the desired groups up to date.
UpdateHandler_DeleteLate(plan, r, failAt) ==
    LET s1 == UpdateInventoryStep(Thread(r, failAt), plan)
        s2 == CurrentGroupsStep(s1, plan)
        s3 == UpdateGroups(s2, plan.groups, 1)
        s4 == UpdateChildren(s3, 1)
        s5 == GroupsToSchemaStep(DeleteGroups(s4, 1))
        s6 == CurrentHostsStep(s5, plan)
        s7 == UpdateHosts(s6, plan.hosts, 1)
        s8 == DeleteHosts(s7, 1)
        s9 == HostsToSchemaStep(UpdateHostGroups(s8, 1))
    IN  Outcome(s9)

\* aapInventoryResource.Update on this plan (the configuration with the ids
\* carried from state), against remote state r.
UpdateHandler(plan, r, failAt) ==
    LET s1 == UpdateInventoryStep(Thread(r, failAt), plan)
        s2 == CurrentGroupsStep(s1, plan)
        s3 == UpdateGroups(s2, plan.groups, 1)
        s4 == DeleteGroups(s3, 1)
        s5 == GroupsToSchemaStep(UpdateChildren(s4, 1))
        s6 == CurrentHostsStep(s5, plan)
        s7 == UpdateHosts(s6, plan.hosts, 1)
        s8 == DeleteHosts(s7, 1)
        s9 == HostsToSchemaStep(UpdateHostGroups(s8, 1))
    IN  Outcome(s9)

\* ---- Read

\* Get groups' children from AAP.
\* A Read that leaves the children of every group as listed: none.
ReadChildren_None(s, i) == s

\* A pass over the groups that does not move on from a group it has read.
RECURSIVE ReadChildren_Again(_, _)
ReadChildren_Again(s, i) ==
    IF s.err # "" \/ i > Len(s.groups) THEN s
    ELSE LET s1 == MakeRequest(s, "GetGroupChildren", s.groups[i].id, 0, s.groups[i].name,
                               GetGroupChildren(s.r, s.groups[i].id))
             childNames == {c.name : c \in Range(Last(s1).list)}
         IN  IF s1.err # "" THEN s1
             ELSE ReadChildren_Again([s1 EXCEPT !.groups[i].children = childNames], i)

RECURSIVE ReadChildren(_, _)
ReadChildren(s, i) ==
    IF s.err # "" \/ i > Len(s.groups) THEN s
    ELSE LET s1 == MakeRequest(s, "GetGroupChildren", s.groups[i].id, 0, s.groups[i].name,
                               GetGroupChildren(s.r, s.groups[i].id))
             childNames == {c.name : c \in Range(Last(s1).list)}
         IN  IF s1.err # "" THEN s1
             ELSE ReadChildren([s1 EXCEPT !.groups[i].children = childNames], i + 1)

\* Get hosts' groups from AAP.
RECURSIVE ReadHostGroups(_, _)
ReadHostGroups(s, i) ==
    IF s.err # "" \/ i > Len(s.hosts) THEN s
    ELSE LET s1 == MakeRequest(s, "GetHostGroups", s.hosts[i].id, 0, s.hosts[i].name,
                               GetHostGroups(s.r, s.hosts[i].id))
             groupNames == {g.name : g \in Range(Last(s1).list)}
         IN  IF s1.err # "" THEN s1
             ELSE ReadHostGroups([s1 EXCEPT !.hosts[i].groups = groupNames], i + 1)

\* Get inventory value from AAP.
ReadInventoryStep(s, st) ==
    LET s1 == MakeRequest(s, "GetInventory", st.id, 0, "", GetInventory(s.r, st.id))
    IN  IF s1.err # "" THEN s1
        ELSE IF VariablesError(s1) THEN AddError(s1, "codec")
        ELSE [s1 EXCEPT !.inv = Last(s1).ret]

WithChildren(list) ==
    [i \in 1..Len(list) |->
        [id |-> list[i].id, inventory |-> list[i].inventory, name |-> list[i].name,
         children |-> {}, description |-> list[i].description,
         variables |-> list[i].variables]]

WithGroups(list) ==
    [i \in 1..Len(list) |->
        [id |-> list[i].id, inventory |-> list[i].inventory, name |-> list[i].name,
         groups |-> {}, description |-> list[i].description,
         variables |-> list[i].variables]]

\* A listing of the groups that deletes the first group it lists.
ReadGroupsStep_Deleting(s) ==
    LET s1 == MakeRequest(s, "GetInventoryGroups", s.inv, 0, "", GetInventoryGroups(s.r, s.inv))
        list == Last(s1).list
    IN  IF s1.err # "" THEN s1
        ELSE IF Len(list) = 0 THEN [s1 EXCEPT !.groups = WithChildren(list)]
        ELSE MakeRequest([s1 EXCEPT !.groups = WithChildren(list)],
                         "DeleteGroup", list[1].id, 0, list[1].name,
                         DeleteGroup(s1.r, list[1].id))

\* Get inventory groups from AAP.
ReadGroupsStep(s) ==
    LET s1 == MakeRequest(s, "GetInventoryGroups", s.inv, 0, "", GetInventoryGroups(s.r, s.inv))
    IN  IF s1.err # "" THEN s1 ELSE [s1 EXCEPT !.groups = WithChildren(Last(s1).list)]

\* Get inventory hosts from AAP.
ReadHostsStep(s) ==
    LET s1 == MakeRequest(s, "GetInventoryHosts", s.inv, 0, "", GetInventoryHosts(s.r, s.inv))
    IN  IF s1.err # "" THEN s1 ELSE [s1 EXCEPT !.hosts = WithGroups(Last(s1).list)]

\* aapInventoryResource.Read of the inventory of this state.
ReadHandler(st, r, failAt) ==
    LET s1 == ReadInventoryStep(Thread(r, failAt), st)
        s2 == ReadGroupsStep(s1)
        s3 == GroupsToSchemaStep(ReadChildren(s2, 1))
        s4 == ReadHostsStep(s3)
        s5 == HostsToSchemaStep(ReadHostGroups(s4, 1))
    IN  Outcome(s5)

\* ---- Delete

\* aapInventoryResource.Delete of the inventory of this state.
DeleteHandler_ReadFirst(st, r, failAt) ==
    LET s0 == MakeRequest(Thread(r, failAt), "GetInventory", st.id, 0, "",
                          GetInventory(r, st.id))
    IN  IF s0.err # "" THEN Outcome(s0)
        ELSE Outcome(MakeRequest(s0, "DeleteInventory", st.id, 0, "",
                                 DeleteInventory(s0.r, st.id)))

DeleteHandler(st, r, failAt) ==
    LET s0 == Thread(r, failAt)
    IN  Outcome(MakeRequest(s0, "DeleteInventory", st.id, 0, "", DeleteInventory(r, st.id)))

\* ------------------------------------------------------------------ life cycle

VARIABLES
    remote,     \* the inventories, groups, hosts and associations of the server
    config,     \* the configuration: the declared groups and hosts
    state,      \* the persisted state: the snapshot last set by a handler
    phase,      \* "new", "live" (created), "failed" (Create erred), "deleted"
    last,       \* the latest handler invocation: its plan, calls and outcome
    streak,     \* successful Updates in a row, with nothing happening in between
    strict,     \* how ids were carried into the latest plan (see CarriedId)
    events,     \* environment events so far
    runs,       \* handler invocations so far
    resourceVariables,  \* a variables attribute handed to the codec
    variablesJson,      \* its JSON text, or a text handed to the codec
    mapVariables,       \* what the text decodes to
    codecStep,          \* how far a conversion has come
    childName,          \* a name handed to the name resolver
    newGroups,          \* the working set of groups it is looked up in
    childId,            \* what the lookup returned
    added,              \* the calls of an add pass for that name
    resolveStep,        \* how far a lookup has come
    jobs,               \* per invocation that runs at the same time as another, its plan
    alone,              \* per such invocation, what it does when it runs by itself
    returned,           \* per such invocation, what it returned
    exchange,           \* one exchange with the gateway: the transport, the status, the body
    result,             \* what MakeRequest returned for it
    gatewayStep,        \* how far the exchange has come
    answered            \* the requests of a handler followed call by call that returned

life == <<remote, config, state, phase, last, streak, strict, events, runs>>

codec == <<resourceVariables, variablesJson, mapVariables, codecStep>>

resolver == <<childName, newGroups, childId, added, resolveStep>>

together == <<turn, delivered, jobs, alone, returned>>

gateway == <<exchange, result, gatewayStep, answered>>

vars == <<life, codec, resolver, together, gateway>>

\* The declared groups (hosts) as the slice the handlers iterate.
RECURSIVE Ordered(_)
Ordered(S) ==
    IF S = {} THEN <<>>
    ELSE LET x == CHOOSE y \in S : TRUE IN <<x>> \o Ordered(S \ {x})

ConfigGroups(cfg) ==
    LET named(n) == Ordered({g \in cfg.groups : g.name = n})
        RECURSIVE cat(_)
        cat(i) == IF i > Len(NameOrder) THEN <<>> ELSE named(NameOrder[i]) \o cat(i + 1)
    IN  cat(1)

ConfigHosts(cfg) ==
    LET named(n) == Ordered({h \in cfg.hosts : h.name = n})
        RECURSIVE cat(_)
        cat(i) == IF i > Len(HostOrder) THEN <<>> ELSE named(HostOrder[i]) \o cat(i + 1)
    IN  cat(1)

\* The id a computed attribute carries into the plan (UseStateForUnknown): the
\* id of the persisted object with the same name (exact: and the same
\* members), else unknown, which the handlers read as 0.
CarriedId(objects, name, members, exact) ==
    LET hits == {i \in 1..Len(objects) :
                    /\ objects[i].name = name
                    /\ exact => objects[i].members = members}
    IN  IF hits = {} THEN 0 ELSE objects[CHOOSE i \in hits : \A j \in hits : i <= j].id

PlanFrom(cfg, st, exact) ==
    LET gs == ConfigGroups(cfg)
        hs == ConfigHosts(cfg)
        stGroups == [i \in 1..Len(st.groups) |->
                        [id |-> st.groups[i].id, name |-> st.groups[i].name,
                         members |-> st.groups[i].children.elems]]
        stHosts == [i \in 1..Len(st.hosts) |->
                        [id |-> st.hosts[i].id, name |-> st.hosts[i].name,
                         members |-> st.hosts[i].groups.elems]]
    IN  [id |-> st.id, variables |-> MapNull,
         groups |-> [i \in 1..Len(gs) |->
                        [id |-> CarriedId(stGroups, gs[i].name, gs[i].children, exact),
                         name |-> gs[i].name, children |-> gs[i].children,
                         description |-> gs[i].description, variables |-> gs[i].variables]],
         hosts |-> [i \in 1..Len(hs) |->
                        [id |-> CarriedId(stHosts, hs[i].name, hs[i].groups, exact),
                         name |-> hs[i].name, groups |-> hs[i].groups,
                         description |-> hs[i].description, variables |-> hs[i].variables]]]

\* The server before the resource exists: another inventory (id 1), with a
\* group and a host of its own.
InitRemote ==
    [invs |-> {1}, nextInv |-> 2, invVars |-> [i \in {1} |-> <<>>],
     groups |-> {[id |-> 1, inventory |-> 1, name |-> "A", description |-> "",
                  variables |-> <<>>]},
     nextGroup |-> 2,
     hosts |-> {[id |-> 1, inventory |-> 1, name |-> "H", description |-> "",
                 variables |-> <<>>]},
     nextHost |-> 2,
     children |-> {}, hostGroups |-> {<<1, 1>>}]

\* The configurations a life starts from: nothing declared; the end-to-end
\* scenario (group A with child B, host H in A and B); the example
\* configuration of the provider (group A with children B and C, host H in
\* A and B, host K in no group); a group that declares itself as a child;
\* a group and a host that declare a group nobody declares; and a chain of
\* groups (A over B over C) with host H in the middle one.
\* A group (host) is declared as in the example configuration: the first
\* with a description and variables, the second with neither, the third
\* with variables that have no entries.
Described(n) == IF n \in {"A", "H"} THEN "d" ELSE ""

Declared(n) ==
    IF n \in {"A", "H"} THEN MapValue([k \in {"a"} |-> "x"])
    ELSE IF n \in {"B", "K"} THEN MapNull
    ELSE MapValue(EmptyMap)

Group(n, cs) ==
    [name |-> n, children |-> cs, description |-> Described(n), variables |-> Declared(n)]

Host(n, gs) ==
    [name |-> n, groups |-> gs, description |-> Described(n), variables |-> Declared(n)]

InitConfigs ==
    { [groups |-> {}, hosts |-> {}],
      [groups |-> {Group("A", {"B"}), Group("B", {})},
       hosts |-> {Host("H", {"A", "B"})}],
      [groups |-> {Group("A", {"B", "C"}), Group("B", {}), Group("C", {})},
       hosts |-> {Host("H", {"A", "B"}), Host("K", {})}],
      [groups |-> {Group("A", {"A", "B"}), Group("B", {})},
       hosts |-> {Host("H", {"B"})}],
      [groups |-> {Group("A", {}), Group("B", {"C"})},
       hosts |-> {Host("H", {"A"})}],
      [groups |-> {Group("A", {})},
       hosts |-> {Host("H", {"A", "C"})}],
      [groups |-> {Group("A", {"B"}), Group("B", {"C"}), Group("C", {})},
       hosts |-> {Host("H", {"B"})}] }

NoCall == [op |-> "none",
           plan |-> [id |-> 0, variables |-> MapNull, groups |-> <<>>, hosts |-> <<>>],
           s |-> Thread(InitRemote, 0), before |-> InitRemote, prior |-> NoState,
           retry |-> FALSE]

NoDecode == [err |-> FALSE, value |-> MapNull]

\* No conversion is under way.
CodecIdle ==
    /\ resourceVariables = MapNull
    /\ variablesJson = <<>>
    /\ mapVariables = NoDecode
    /\ codecStep = "idle"

NoLookup == [err |-> FALSE, id |-> 0, named |-> ""]

NoPass == [path |-> "none", calls |-> <<>>, err |-> ""]

\* No lookup is under way.
ResolverIdle ==
    /\ childName = ""
    /\ newGroups = <<>>
    /\ childId = NoLookup
    /\ added = NoPass
    /\ resolveStep = "idle"

\* Handlers run one at a time.
\* No exchange with the gateway is looked at by itself.
GatewayIdle ==
    /\ exchange = [at |-> 0, transport |-> "ok", status |-> 0, body |-> NoBody]
    /\ result = [panic |-> FALSE, body |-> NoBody, err |-> NoError]
    /\ gatewayStep = "idle"
    /\ answered = 0

OneAtATime ==
    /\ turn = 0
    /\ delivered = <<>>
    /\ jobs = <<>>
    /\ alone = <<>>
    /\ returned = <<>>

Init ==
    /\ GatewayIdle
    /\ OneAtATime
    /\ remote = InitRemote
    /\ config \in InitConfigs
    /\ state = NoState
    /\ phase = "new"
    /\ last = NoCall
    /\ streak = 0
    /\ strict = FALSE
    /\ events = 0
    /\ runs = 0
    /\ CodecIdle
    /\ ResolverIdle

\* The positions at which a call of this run may fail: none, or, while the
\* environment may still act, any call the run issues.
FailPoints(run) ==
    {0} \cup (IF events < MaxEvents THEN 1..Len(run.s.calls) ELSE {})

\* The calls that only fetch.
Fetching == {"GetInventory", "GetInventoryGroups", "GetGroupChildren",
             "GetInventoryHosts", "GetHostGroups"}

\* This Update comes right after an Update of the same plan that returned on
\* a failed call after the server had accepted a call that changes it, with
\* nothing done to the server in between.
Retry(op, plan) ==
    /\ op = "Update" /\ last.op = "Update"
    /\ last.s.err = "call"
    /\ \E j \in 1..Len(last.s.calls) :
          last.s.calls[j].ok /\ last.s.calls[j].op \notin Fetching
    /\ last.plan = plan
    /\ last.s.r = remote

Invocation(op, plan, out) ==
    [op |-> op, plan |-> plan, s |-> out.s, before |-> remote, prior |-> state,
     retry |-> Retry(op, plan)]

Create ==
    /\ UNCHANGED <<codec, resolver, together, gateway>>
    /\ phase = "new" /\ runs < MaxRuns
    /\ runs' = runs + 1
    /\ LET plan == PlanFrom(config, NoState, FALSE)
       IN  \E failAt \in FailPoints(CreateHandler(plan, remote, 0)) :
             LET out == CreateHandler(plan, remote, failAt)
             IN  /\ remote' = out.s.r
                 /\ last' = Invocation("Create", plan, out)
                 /\ state' = IF out.s.err = "" THEN out.state ELSE state
                 /\ phase' = IF out.s.err = "" THEN "live" ELSE "failed"
                 /\ events' = IF failAt = 0 THEN events ELSE events + 1
    /\ UNCHANGED <<config, streak, strict>>

\* An Update that sets the state to the groups it has reconciled so far
\* when it returns on an error.
Update_SavesAnyway ==
    /\ UNCHANGED <<codec, resolver, together, gateway>>
    /\ phase = "live" /\ runs < MaxRuns
    /\ runs' = runs + 1
    /\ \E exact \in BOOLEAN :
         LET plan == PlanFrom(config, state, exact)
         IN  /\ exact => plan # PlanFrom(config, state, FALSE)
             /\ strict' = exact
             /\ \E failAt \in FailPoints(UpdateHandler(plan, remote, 0)) :
                   LET out == UpdateHandler(plan, remote, failAt)
                   IN  /\ remote' = out.s.r
                       /\ last' = Invocation("Update", plan, out)
                       /\ state' = IF out.s.err = "" THEN out.state
                                   ELSE [state EXCEPT !.groups = GroupsToSchema(out.s.groups)]
                       /\ streak' = IF out.s.err = "" THEN Min(streak + 1, 2) ELSE 0
                       /\ events' = IF failAt = 0 THEN events ELSE events + 1
    /\ UNCHANGED <<config, phase>>

Update ==
    /\ UNCHANGED <<codec, resolver, together, gateway>>
    /\ phase = "live" /\ runs < MaxRuns
    /\ runs' = runs + 1
    /\ \E exact \in BOOLEAN :
         LET plan == PlanFrom(config, state, exact)
         IN  /\ exact => plan # PlanFrom(config, state, FALSE)
             /\ strict' = exact
             /\ \E failAt \in FailPoints(UpdateHandler(plan, remote, 0)) :
                   LET out == UpdateHandler(plan, remote, failAt)
                   IN  /\ remote' = out.s.r
                       /\ last' = Invocation("Update", plan, out)
                       /\ state' = IF out.s.err = "" THEN out.state ELSE state
                       /\ streak' = IF out.s.err = "" THEN Min(streak + 1, 2) ELSE 0
                       /\ events' = IF failAt = 0 THEN events ELSE events + 1
    /\ UNCHANGED <<config, phase>>

Read ==
    /\ UNCHANGED <<codec, resolver, together, gateway>>
    /\ phase = "live" /\ runs < MaxRuns
    /\ runs' = runs + 1
    /\ \E failAt \in FailPoints(ReadHandler(state, remote, 0)) :
         LET out == ReadHandler(state, remote, failAt)
         IN  /\ remote' = out.s.r
             /\ last' = Invocation("Read", state, out)
             /\ state' = IF out.s.err = "" THEN out.state ELSE state
             /\ events' = IF failAt = 0 THEN events ELSE events + 1
    /\ streak' = 0
    /\ UNCHANGED <<config, phase, strict>>

Delete ==
    /\ UNCHANGED <<codec, resolver, together, gateway>>
    /\ phase = "live" /\ runs < MaxRuns
    /\ runs' = runs + 1
    /\ \E failAt \in FailPoints(DeleteHandler(state, remote, 0)) :
         LET out == DeleteHandler(state, remote, failAt)
         IN  /\ remote' = out.s.r
             /\ last' = Invocation("Delete", state, out)
             /\ state' = IF out.s.err = "" THEN NoState ELSE state
             /\ phase' = IF out.s.err = "" THEN "deleted" ELSE phase
             /\ events' = IF failAt = 0 THEN events ELSE events + 1
    /\ streak' = 0
    /\ UNCHANGED <<config, strict>>

\* ---- the environment

\* The user declares or drops a group, a child, a host or a host's group.
EditGroup ==
    /\ UNCHANGED <<codec, resolver, together, gateway>>
    /\ phase = "live" /\ events < MaxEvents /\ runs < MaxRuns
    /\ \E n \in GroupNames :
         config' = [config EXCEPT !.groups =
                       IF \E g \in @ : g.name = n THEN {g \in @ : g.name # n}
                       ELSE @ \cup {Group(n, {})}]
    /\ events' = events + 1 /\ streak' = 0
    /\ UNCHANGED <<remote, state, phase, last, strict, runs>>

EditChild ==
    /\ UNCHANGED <<codec, resolver, together, gateway>>
    /\ phase = "live" /\ events < MaxEvents /\ runs < MaxRuns
    /\ \E g \in config.groups, c \in GroupNames :
         config' = [config EXCEPT !.groups = (@ \ {g}) \cup
                       {[g EXCEPT !.children = IF c \in @ THEN @ \ {c} ELSE @ \cup {c}]}]
    /\ events' = events + 1 /\ streak' = 0
    /\ UNCHANGED <<remote, state, phase, last, strict, runs>>

EditHost ==
    /\ UNCHANGED <<codec, resolver, together, gateway>>
    /\ phase = "live" /\ events < MaxEvents /\ runs < MaxRuns
    /\ \E n \in HostNames :
         config' = [config EXCEPT !.hosts =
                       IF \E h \in @ : h.name = n THEN {h \in @ : h.name # n}
                       ELSE @ \cup {Host(n, {})}]
    /\ events' = events + 1 /\ streak' = 0
    /\ UNCHANGED <<remote, state, phase, last, strict, runs>>

EditHostGroup ==
    /\ UNCHANGED <<codec, resolver, together, gateway>>
    /\ phase = "live" /\ events < MaxEvents /\ runs < MaxRuns
    /\ \E h \in config.hosts, c \in GroupNames :
         config' = [config EXCEPT !.hosts = (@ \ {h}) \cup
                       {[h EXCEPT !.groups = IF c \in @ THEN @ \ {c} ELSE @ \cup {c}]}]
    /\ events' = events + 1 /\ streak' = 0
    /\ UNCHANGED <<remote, state, phase, last, strict, runs>>

\* The user drops a group together with every mention of it among the
\* children of the other groups and the groups of the hosts.
DropGroup ==
    /\ UNCHANGED <<codec, resolver, together, gateway>>
    /\ phase = "live" /\ events < MaxEvents /\ runs < MaxRuns
    /\ \E n \in {g.name : g \in config.groups} :
         config' = [groups |-> {[g EXCEPT !.children = @ \ {n}] :
                                   g \in {x \in config.groups : x.name # n}},
                    hosts |-> {[h EXCEPT !.groups = @ \ {n}] : h \in config.hosts}]
    /\ events' = events + 1 /\ streak' = 0
    /\ UNCHANGED <<remote, state, phase, last, strict, runs>>

\* Someone else deletes a group or a host of the inventory on the server.
OutOfBandDeleteGroup ==
    /\ UNCHANGED <<codec, resolver, together, gateway>>
    /\ phase = "live" /\ events < MaxEvents /\ runs < MaxRuns
    /\ \E g \in {x \in remote.groups : x.inventory = state.id} :
         remote' = DeleteGroup(remote, g.id).r
    /\ events' = events + 1 /\ streak' = 0
    /\ UNCHANGED <<config, state, phase, last, strict, runs>>

OutOfBandDeleteHost ==
    /\ UNCHANGED <<codec, resolver, together, gateway>>
    /\ phase = "live" /\ events < MaxEvents /\ runs < MaxRuns
    /\ \E h \in {x \in remote.hosts : x.inventory = state.id} :
         remote' = DeleteHost(remote, h.id).r
    /\ events' = events + 1 /\ streak' = 0
    /\ UNCHANGED <<config, state, phase, last, strict, runs>>

\* Someone else clears the variables of the inventory, of a group or of a
\* host on the server: the text is then the empty string.
EditedVariables == {<<>>}

OutOfBandEditVariables ==
    /\ UNCHANGED <<codec, resolver, together, gateway>>
    /\ phase = "live" /\ events < MaxEvents /\ runs < MaxRuns
    /\ \E text \in EditedVariables :
         \/ remote' = [remote EXCEPT !.invVars = Put(@, state.id, text)]
         \/ \E g \in {x \in remote.groups : x.inventory = state.id} :
              remote' = [remote EXCEPT !.groups = (@ \ {g}) \cup {[g EXCEPT !.variables = text]}]
         \/ \E h \in {x \in remote.hosts : x.inventory = state.id} :
              remote' = [remote EXCEPT !.hosts = (@ \ {h}) \cup {[h EXCEPT !.variables = text]}]
    /\ events' = events + 1 /\ streak' = 0
    /\ UNCHANGED <<config, state, phase, last, strict, runs>>

Next ==
    \/ Create
    \/ Update
    \/ Read
    \/ Delete
    \/ EditGroup
    \/ EditChild
    \/ EditHost
    \/ EditHostGroup
    \/ DropGroup
    \/ OutOfBandDeleteGroup
    \/ OutOfBandDeleteHost
    \/ OutOfBandEditVariables

Spec == Init /\ [][Next]_vars

\* ---- the variables codec on its own

\* The variables attributes the codec is handed: null, and every mapping
\* from some of the keys to the values.
Mappings ==
    {MapNull} \cup
    {MapValue(f) : f \in UNION {[S -> VarValues] : S \in SUBSET Range(VarKeys)}}

\* A server that holds the groups of a working set in an inventory of their own.
RemoteWith(groups) ==
    [InitRemote EXCEPT !.invs = @ \cup {2}, !.nextInv = 3,
                       !.invVars = Put(@, 2, <<JsonNull>>),
                       !.groups = @ \cup {Stored(groups[i].id, groups[i]) : i \in 1..Len(groups)},
                       !.nextGroup = 2 + Len(NameOrder)]

\* Texts a server may hold that no encoding yields: nothing at all, the
\* start of a YAML document, a truncated object, a bare string, a number and
\* a null as a value, a key twice, text after the object, and a null.
WireTexts ==
    { <<>>,
      <<Tok("---", "")>>,
      <<LBrace>>,
      <<JsonString("a")>>,
      <<LBrace, JsonString("a"), Colon, JsonNumber, RBrace>>,
      <<LBrace, JsonString("a"), Colon, JsonNull, RBrace>>,
      <<LBrace, JsonString("a"), Colon, JsonString("x"), Comma,
        JsonString("a"), Colon, JsonString("y"), RBrace>>,
      <<LBrace, RBrace, RBrace>>,
      <<JsonNull>> }

CodecInit ==
    /\ GatewayIdle
    /\ OneAtATime
    /\ remote = InitRemote
    /\ config = [groups |-> {}, hosts |-> {}]
    /\ state = NoState
    /\ phase = "new"
    /\ last = NoCall
    /\ streak = 0
    /\ strict = FALSE
    /\ events = 0
    /\ runs = 0
    /\ mapVariables = NoDecode
    /\ ResolverIdle
    /\ \/ /\ codecStep = "map"
          /\ resourceVariables \in Mappings
          /\ variablesJson = <<>>
       \/ /\ codecStep = "wire"
          /\ resourceVariables = MapNull
          /\ variablesJson \in WireTexts

Encode ==
    /\ codecStep = "map"
    /\ variablesJson' = VariablesMapToString(resourceVariables)
    /\ codecStep' = "encoded"
    /\ UNCHANGED <<life, resolver, together, gateway, resourceVariables, mapVariables>>

Decode ==
    /\ codecStep \in {"encoded", "wire"}
    /\ mapVariables' = VariablesStringToMap(variablesJson)
    /\ codecStep' = IF codecStep = "encoded" THEN "decoded" ELSE "parsed"
    /\ UNCHANGED <<life, resolver, together, gateway, resourceVariables, variablesJson>>

\* What a handler does from the conversion of its groups on, the groups
\* being the ones its calls have answered with so far.
SchemaTail(op, s, plan) ==
    IF op = "Create"
    THEN HostsToSchemaStep(CreateHostGroups(CreateHosts(GroupsToSchemaStep(s), plan.hosts, 1), 1))
    ELSE IF op = "Read"
    THEN HostsToSchemaStep(ReadHostGroups(ReadHostsStep(GroupsToSchemaStep(s)), 1))
    ELSE LET s6 == CurrentHostsStep(GroupsToSchemaStep(s), plan)
             s8 == DeleteHosts(UpdateHosts(s6, plan.hosts, 1), 1)
         IN  HostsToSchemaStep(UpdateHostGroups(s8, 1))

\* A handler whose calls answered with one group that has the text as its
\* variables goes on to convert its groups and to set the state.
Convert ==
    /\ codecStep \in {"decoded", "parsed"}
    /\ \E op \in {"Create", "Read", "Update"} :
         LET g == [AapGroup(2, Group(NameOrder[1], {})) EXCEPT !.id = 2, !.variables = variablesJson]
             plan == [id |-> 2, variables |-> MapNull, groups |-> <<Group(NameOrder[1], {})>>,
                      hosts |-> <<Host(HostOrder[1], {})>>]
             r == RemoteWith(<<g>>)
             s == SchemaTail(op, [Thread(r, 0) EXCEPT !.inv = 2, !.groups = <<g>>], plan)
         IN  /\ last' = [op |-> op, plan |-> plan, s |-> s, before |-> r, prior |-> state,
                         retry |-> FALSE]
             /\ state' = IF s.err = "" THEN Outcome(s).state ELSE state
    /\ codecStep' = "converted"
    /\ UNCHANGED <<remote, config, phase, streak, strict, events, runs>>
    /\ UNCHANGED <<resolver, together, gateway, resourceVariables, variablesJson, mapVariables>>

CodecNext ==
    \/ Encode
    \/ Decode
    \/ Convert

CodecSpec == CodecInit /\ [][CodecNext]_vars

\* ---- the name resolver on its own

\* The working sets a lookup may be handed: up to as many groups as there
\* are names, each with an id of its own and any of the names, so that a
\* name may occur in none, in one or in several of them.
WorkingSets ==
    {gs \in UNION {[1..k -> {[AapGroup(2, Group(n, {})) EXCEPT !.id = id] :
                                 id \in 2..(1 + Len(NameOrder)), n \in GroupNames}] :
                      k \in 0..Len(NameOrder)} :
        \A i, j \in 1..Len(gs) : gs[i].id = gs[j].id => i = j}

\* The add pass of a handler for one declared name: of the first group of
\* the working set as the parent, or of the host of the server.
AddPass(path, s) ==
    IF path = "CreateChildren" THEN CreateChildrenOf(s, s.groups[1].id, <<childName>>, 1)
    ELSE IF path = "UpdateChildren" THEN AddChildren(s, s.groups[1].id, <<childName>>, <<>>, 1)
    ELSE IF path = "CreateHostGroups" THEN CreateHostGroupsOf(s, 1, <<childName>>, 1)
    ELSE AddHostGroups(s, 1, <<childName>>, <<>>, 1)

ResolveInit ==
    /\ GatewayIdle
    /\ OneAtATime
    /\ remote = InitRemote
    /\ config = [groups |-> {}, hosts |-> {}]
    /\ state = NoState
    /\ phase = "new"
    /\ last = NoCall
    /\ streak = 0
    /\ strict = FALSE
    /\ events = 0
    /\ runs = 0
    /\ CodecIdle
    /\ childName \in GroupNames
    /\ newGroups \in WorkingSets
    /\ childId = NoLookup
    /\ added = NoPass
    /\ resolveStep = "given"

Resolve ==
    /\ resolveStep = "given"
    /\ childId' = GroupIdFromName(childName, newGroups)
    /\ resolveStep' = "resolved"
    /\ UNCHANGED <<life, codec, together, gateway, childName, newGroups, added>>

Associate ==
    /\ resolveStep = "resolved" /\ Len(newGroups) > 0
    /\ \E path \in {"CreateChildren", "UpdateChildren", "CreateHostGroups", "UpdateHostGroups"} :
         LET s == AddPass(path, [Thread(RemoteWith(newGroups), 0) EXCEPT !.groups = newGroups])
         IN  added' = [path |-> path, calls |-> s.calls, err |-> s.err]
    /\ resolveStep' = "associated"
    /\ UNCHANGED <<life, codec, together, gateway, childName, newGroups, childId>>

ResolveNext ==
    \/ Resolve
    \/ Associate

ResolveSpec == ResolveInit /\ [][ResolveNext]_vars

\* ---- two Updates at the same time

\* The host environment applies two resources at once: an Update for each of
\* two inventories, each with the state its own Create set.
Invocations == {1, 2}

\* What an invocation does when nothing else talks to the server: its calls,
\* what it returns, and the server after each of its calls (after[k] is the
\* server when k - 1 calls are done).
Alone(plan, r) ==
    CHOOSE run \in {[calls |-> out.s.calls, err |-> out.s.err, state |-> out.state,
                     after |-> [k \in 1..(Len(out.s.calls) + 1) |->
                                   UpdateHandler(plan, r, k).s.r]] :
                        out \in {UpdateHandler(plan, r, 0)}} : TRUE

\* The configuration both inventories were created from, and the
\* configurations they are edited to: everything dropped; a group and a host
\* more; the groups chained and the host moved; a child nobody declares.
Applied == [groups |-> {Group("A", {"B"}), Group("B", {})},
            hosts |-> {Host("H", {"A", "B"})}]

Edited ==
    { [groups |-> {}, hosts |-> {}],
      [groups |-> {Group("A", {"B", "C"}), Group("B", {}), Group("C", {})},
       hosts |-> {Host("H", {"A", "B"}), Host("K", {})}],
      [groups |-> {Group("A", {"B"}), Group("B", {"C"}), Group("C", {})},
       hosts |-> {Host("H", {"B"})}],
      [groups |-> {Group("A", {}), Group("B", {"C"})},
       hosts |-> {Host("H", {"A"})}] }

TogetherInit ==
    /\ GatewayIdle
    /\ turn = 0
    /\ config = [groups |-> {}, hosts |-> {}]
    /\ state = NoState
    /\ phase = "new"
    /\ last = NoCall
    /\ streak = 0
    /\ strict = FALSE
    /\ events = 0
    /\ runs = 0
    /\ CodecIdle
    /\ ResolverIdle
    /\ delivered = [i \in Invocations |-> <<>>]
    /\ returned = [i \in Invocations |-> [done |-> FALSE, err |-> "", state |-> NoState]]
    /\ \E first \in {CreateHandler(PlanFrom(Applied, NoState, FALSE), InitRemote, 0)} :
         \E second \in {CreateHandler(PlanFrom(Applied, NoState, FALSE), first.s.r, 0)} :
            \E wanted \in [Invocations -> Edited] :
               /\ remote = second.s.r
               /\ jobs = <<PlanFrom(wanted[1], first.state, FALSE),
                           PlanFrom(wanted[2], second.state, FALSE)>>
               /\ alone = <<>>

\* The host environment starts the two Updates.  What each of them would do
\* by itself, from the server as it is now, is kept for comparison.
Begin ==
    /\ turn = 0 /\ alone = <<>>
    /\ alone' = [i \in Invocations |-> Alone(jobs[i], remote)]
    /\ turn' \in Invocations
    /\ UNCHANGED <<life, codec, resolver, gateway, delivered, jobs, returned>>

\* The server takes the next request of an invocation and answers it; the
\* handler runs on to its next request, or returns.
Serve ==
    /\ turn # 0
    /\ \E out \in {UpdateHandler(jobs[turn], remote, 0)} :
          /\ remote' = out.s.r
          /\ delivered' = [delivered EXCEPT ![turn] = out.s.calls]
          /\ returned' = IF out.s.err = "blocked" THEN returned
                         ELSE [returned EXCEPT ![turn] =
                                  [done |-> TRUE, err |-> out.s.err, state |-> out.state]]
          /\ turn' \in IF \A i \in Invocations : returned'[i].done THEN {0}
                        ELSE {i \in Invocations : ~returned'[i].done}
    /\ UNCHANGED <<config, state, phase, last, streak, strict, events, runs>>
    /\ UNCHANGED <<codec, resolver, gateway, jobs, alone>>

TogetherNext ==
    \/ Begin
    \/ Serve

TogetherSpec == TogetherInit /\ [][TogetherNext]_vars

\* ------------------------------------------------------------------ gateway

\* The statuses a gateway answers with, and some it might.
StatusCodes == {200, 201, 202, 203, 204, 301, 400, 401, 404, 500}

Bodies == {"", "{}"}

\* The call of a handler that the exchange is for.
MaxAt == 3

\* One exchange by itself, for a call of a handler of an inventory that was
\* created from a configuration of two groups and a host.
GatewayInit ==
    /\ OneAtATime
    /\ remote = InitRemote
    /\ config = [groups |-> {}, hosts |-> {}]
    /\ state = NoState
    /\ phase = "new"
    /\ last = NoCall
    /\ streak = 0
    /\ strict = FALSE
    /\ events = 0
    /\ runs = 0
    /\ CodecIdle
    /\ ResolverIdle
    /\ \E at \in 1..MaxAt :
          \/ \E tr \in {"unbuilt", "do", "read"} :
                exchange = [at |-> at, transport |-> tr, status |-> 0, body |-> NoBody]
          \/ \E status \in StatusCodes, body \in Bodies :
                exchange = [at |-> at, transport |-> "ok", status |-> status, body |-> body]
    /\ result = [panic |-> FALSE, body |-> NoBody, err |-> NoError]
    /\ gatewayStep = "sent"
    /\ answered = 0

Request ==
    /\ gatewayStep = "sent"
    /\ result' = ClientMakeRequest(exchange)
    /\ gatewayStep' = "returned"
    /\ UNCHANGED <<life, codec, resolver, together, exchange, answered>>

\* A handler called on a plan (Create, Update) or a state (Read, Delete).
HandlerWith(op, plan, st, r, failAt) ==
    IF op = "Create" THEN CreateHandler(plan, r, failAt)
    ELSE IF op = "Read" THEN ReadHandler(st, r, failAt)
    ELSE IF op = "Update" THEN UpdateHandler(plan, r, failAt)
    ELSE DeleteHandler(st, r, failAt)

\* The handler that made the call goes on with what MakeRequest returned.
Handle ==
    /\ gatewayStep = "returned" /\ ~result.panic
    /\ \E op \in {"Create", "Read", "Update", "Delete"} :
         \E made \in {CreateHandler(PlanFrom(Applied, NoState, FALSE), InitRemote, 0)} :
           \E st \in {IF op = "Create" THEN NoState ELSE made.state},
              r \in {IF op = "Create" THEN InitRemote ELSE made.s.r} :
             \E out \in {HandlerWith(op, PlanFrom(Applied, st, FALSE), st, r,
                                      IF result.err = NoError THEN 0 ELSE exchange.at)} :
                /\ exchange.at <= Len(HandlerWith(op, PlanFrom(Applied, st, FALSE), st, r, 0).s.calls)
                /\ last' = [op |-> op, plan |-> PlanFrom(Applied, st, FALSE), s |-> out.s,
                            before |-> r, prior |-> st, retry |-> FALSE]
                /\ remote' = out.s.r
                /\ state' = IF out.s.err # "" THEN st
                            ELSE IF op = "Delete" THEN NoState ELSE out.state
    /\ gatewayStep' = "handled"
    /\ UNCHANGED <<config, phase, streak, strict, events, runs>>
    /\ UNCHANGED <<codec, resolver, together, exchange, result, answered>>

GatewayNext ==
    \/ Request
    \/ Handle

GatewaySpec == GatewayInit /\ [][GatewayNext]_vars

\* ------------------------------------------------------------------ call by call

\* The calls a handler is followed for, and the calls of it that may fail.
MaxCalls == 30

MaxFailAt == 3

\* One handler called by itself and followed from request to request:
\* Create of a configuration, or Read, Update to a configuration or Delete
\* of the inventory that was created from Applied.  One of its first calls
\* may return an error.
StepInit ==
    /\ GatewayIdle
    /\ turn = 0
    /\ config = [groups |-> {}, hosts |-> {}]
    /\ state = NoState
    /\ phase = "new"
    /\ last = NoCall
    /\ streak = 0
    /\ strict = FALSE
    /\ events = 0
    /\ runs = 0
    /\ CodecIdle
    /\ ResolverIdle
    /\ delivered = [i \in Invocations |-> <<>>]
    /\ returned = [i \in Invocations |-> [done |-> FALSE, err |-> "", state |-> NoState]]
    /\ alone = <<>>
    /\ \E made \in {CreateHandler(PlanFrom(Applied, NoState, FALSE), InitRemote, 0)} :
         \E op \in {"Create", "Read", "Update", "Delete"}, cfg \in Edited \cup {Applied},
            failAt \in 0..MaxFailAt :
            /\ remote = IF op = "Create" THEN InitRemote ELSE made.s.r
            /\ jobs = <<[op |-> op, failAt |-> failAt,
                         st |-> IF op = "Create" THEN NoState ELSE made.state,
                         plan |-> PlanFrom(cfg, IF op = "Create" THEN NoState ELSE made.state,
                                           FALSE)]>>

\* The host environment calls the handler.
Start ==
    /\ turn = 0 /\ ~returned[1].done
    /\ turn' = 1
    /\ UNCHANGED <<life, codec, resolver, gateway, delivered, jobs, alone, returned>>

\* The request the handler is at returns, and the handler runs on to its
\* next request or to its end.
Proceed ==
    /\ turn = 1 /\ Len(delivered[1]) < MaxCalls
    /\ \E out \in {HandlerWith(jobs[1].op, jobs[1].plan, jobs[1].st, remote, jobs[1].failAt)} :
          /\ remote' = out.s.r
          /\ delivered' = [delivered EXCEPT ![1] = out.s.calls]
          /\ returned' = IF out.s.err = "blocked" THEN returned
                         ELSE [returned EXCEPT ![1] =
                                  [done |-> TRUE, err |-> out.s.err, state |-> out.state]]
          /\ turn' = IF out.s.err = "blocked" THEN 1 ELSE 0
    /\ answered' = answered + 1
    /\ UNCHANGED <<config, state, phase, last, streak, strict, events, runs>>
    /\ UNCHANGED <<codec, resolver, exchange, result, gatewayStep, jobs, alone>>

StepNext ==
    \/ Start
    \/ Proceed

\* The request the handler is at returns: the handler is given its answer.
Returns ==
    /\ turn = 1 /\ Len(delivered[1]) < MaxCalls
    /\ answered' = answered + 1

\* Every remote call returns.
StepSpec == StepInit /\ [][StepNext]_vars /\ WF_answered(Returns)

\* ------------------------------------------------------------------ claims

\* The calls of the latest invocation, and those of one kind.
Calls == last.s.calls

CallsOf(ops) == {i \in 1..Len(Calls) : Calls[i].op \in ops}

Succeeded(op) == last.op = op /\ last.s.err = ""

\* The groups and hosts the server holds for an inventory.
GroupsOf(r, inv) == {g \in r.groups : g.inventory = inv}

HostsOf(r, inv) == {h \in r.hosts : h.inventory = inv}

ChildNames(r, id) == {g.name : g \in {x \in r.groups : <<id, x.id>> \in r.children}}

HostGroupNames(r, id) == {g.name : g \in {x \in r.groups : <<id, x.id>> \in r.hostGroups}}

\* The inventory of the server equals the plan: one remote group per declared
\* group, with its name and its declared children, and likewise the hosts.
Converged(plan, r) ==
    /\ \E f \in [1..Len(plan.groups) -> GroupsOf(r, plan.id)] :
         /\ \A g \in GroupsOf(r, plan.id) : \E i \in 1..Len(plan.groups) : f[i] = g
         /\ \A i, j \in 1..Len(plan.groups) : f[i] = f[j] => i = j
         /\ \A i \in 1..Len(plan.groups) :
              /\ f[i].name = plan.groups[i].name
              /\ ChildNames(r, f[i].id) = plan.groups[i].children
    /\ \E f \in [1..Len(plan.hosts) -> HostsOf(r, plan.id)] :
         /\ \A h \in HostsOf(r, plan.id) : \E i \in 1..Len(plan.hosts) : f[i] = h
         /\ \A i, j \in 1..Len(plan.hosts) : f[i] = f[j] => i = j
         /\ \A i \in 1..Len(plan.hosts) :
              /\ f[i].name = plan.hosts[i].name
              /\ HostGroupNames(r, f[i].id) = plan.hosts[i].groups

\* C1: after an Update that completes without error the remote inventory
\* equals the desired state: the remote groups are exactly the declared
\* groups, each with its declared children, and the remote hosts are exactly
\* the declared hosts, each in its declared groups.
C1_UpdateConverges == Succeeded("Update") => Converged(last.plan, last.s.r)

\* The successful calls of the latest invocation that return this id.
Returned(ops, id) == {j \in CallsOf(ops) : Calls[j].ok /\ Calls[j].ret = id}

\* C2: in the Create path every add-child call comes after every group
\* create and names a parent and a child that earlier group creates
\* returned; every add-group-to-host call comes after every group create and
\* names a host an earlier host create returned and a group an earlier group
\* create returned.
C2_CreateAssociatesCreated ==
    last.op = "Create" =>
        /\ \A i \in CallsOf({"AddChildToGroup"}) :
             /\ \A j \in CallsOf({"CreateGroup"}) : j < i
             /\ \E j \in Returned({"CreateGroup"}, Calls[i].a) : j < i
             /\ \E j \in Returned({"CreateGroup"}, Calls[i].b) : j < i
        /\ \A i \in CallsOf({"AddGroupToHost"}) :
             /\ \A j \in CallsOf({"CreateGroup"}) : j < i
             /\ \E j \in Returned({"CreateHost"}, Calls[i].a) : j < i
             /\ \E j \in Returned({"CreateGroup"}, Calls[i].b) : j < i

C2_Witness ==
    /\ Succeeded("Create")
    /\ CallsOf({"AddChildToGroup"}) # {}
    /\ CallsOf({"AddGroupToHost"}) # {}

\* The declared (owner, member) pairs of a slice of groups or hosts, owner by
\* owner in slice order and member by member in iteration order.
RECURSIVE Pairs(_, _, _)
Pairs(names, members, i) ==
    IF i > Len(names) THEN <<>>
    ELSE LET ms == NameSeq(members[i])
         IN  [j \in 1..Len(ms) |-> [owner |-> i, member |-> ms[j]]] \o Pairs(names, members, i + 1)

ChildPairs(plan) ==
    Pairs([i \in 1..Len(plan.groups) |-> plan.groups[i].name],
          [i \in 1..Len(plan.groups) |-> plan.groups[i].children], 1)

HostGroupPairs(plan) ==
    Pairs([i \in 1..Len(plan.hosts) |-> plan.hosts[i].name],
          [i \in 1..Len(plan.hosts) |-> plan.hosts[i].groups], 1)

\* C3: a successful Create issues one create-inventory, then one create-group
\* per declared group, then one add-child per declared (parent, child) pair,
\* then one create-host per declared host, then one add-group-to-host per
\* declared (host, group) pair, and nothing else; the snapshot lists for each
\* group its declared children and for each host its declared groups.
C3_CreateSequence ==
    Succeeded("Create") =>
        LET plan == last.plan
            ng == Len(plan.groups)
            cp == ChildPairs(plan)
            nh == Len(plan.hosts)
            hp == HostGroupPairs(plan)
            g0 == 1
            c0 == g0 + ng
            h0 == c0 + Len(cp)
            a0 == h0 + nh
        IN  /\ Len(Calls) = a0 + Len(hp)
            /\ Calls[1].op = "CreateInventory"
            /\ \A i \in 1..ng :
                 Calls[g0 + i].op = "CreateGroup" /\ Calls[g0 + i].name = plan.groups[i].name
            /\ \A k \in 1..Len(cp) :
                 /\ Calls[c0 + k].op = "AddChildToGroup"
                 /\ Calls[c0 + k].a = Calls[g0 + cp[k].owner].ret
                 /\ Calls[c0 + k].name = cp[k].member
                 /\ \E i \in 1..ng : /\ plan.groups[i].name = cp[k].member
                                     /\ Calls[c0 + k].b = Calls[g0 + i].ret
            /\ \A i \in 1..nh :
                 Calls[h0 + i].op = "CreateHost" /\ Calls[h0 + i].name = plan.hosts[i].name
            /\ \A k \in 1..Len(hp) :
                 /\ Calls[a0 + k].op = "AddGroupToHost"
                 /\ Calls[a0 + k].a = Calls[h0 + hp[k].owner].ret
                 /\ Calls[a0 + k].name = hp[k].member
                 /\ \E i \in 1..ng : /\ plan.groups[i].name = hp[k].member
                                     /\ Calls[a0 + k].b = Calls[g0 + i].ret
            /\ Len(state.groups) = ng /\ Len(state.hosts) = nh
            /\ \A i \in 1..ng :
                 /\ state.groups[i].name = plan.groups[i].name
                 /\ state.groups[i].children.elems = plan.groups[i].children
            /\ \A i \in 1..nh :
                 /\ state.hosts[i].name = plan.hosts[i].name
                 /\ state.hosts[i].groups.elems = plan.hosts[i].groups

C3_Witness ==
    /\ Succeeded("Create")
    /\ Len(ChildPairs(last.plan)) > 0
    /\ Len(HostGroupPairs(last.plan)) > 1

Mutating == {"CreateGroup", "DeleteGroup", "CreateHost", "DeleteHost",
             "AddChildToGroup", "RemoveChildFromGroup",
             "AddGroupToHost", "RemoveGroupFromHost"}

\* C4: the second of two successful Updates in a row, with the same desired
\* state and nothing happening in between, issues no create, delete,
\* associate or disassociate call.
C4_SecondUpdateIdle ==
    (Succeeded("Update") /\ streak = 2) => CallsOf(Mutating) = {}

Names(list) == {list[k].name : k \in 1..Len(list)}

\* The member calls of the latest invocation on this owner for this name.
MemberCalls(op, owner, name) ==
    {j \in CallsOf({op}) : Calls[j].a = owner /\ Calls[j].name = name}

\* One owner's membership diff: the fetch of its current members happened
\* once, every declared name the fetch lacks is added once, every fetched
\* name not declared is removed once, and no other member call names it.
MemberDiff(fetchOp, addOp, removeOp, owner, declared) ==
    /\ Cardinality({k \in CallsOf({fetchOp}) : Calls[k].a = owner}) = 1
    /\ \A k \in CallsOf({fetchOp}) :
         Calls[k].a = owner =>
             LET fetched == Names(Calls[k].list)
             IN  \A n \in GroupNames :
                   /\ Cardinality(MemberCalls(addOp, owner, n)) =
                          IF n \in declared \ fetched THEN 1 ELSE 0
                   /\ Cardinality(MemberCalls(removeOp, owner, n)) =
                          IF n \in fetched \ declared THEN 1 ELSE 0

\* C5: in a successful Update, for every reconciled group with fetched
\* current children C and declared children D, exactly one add-child call is
\* issued for each name of D \ C, exactly one remove-child call for each name
\* of C \ D, and none for a name of both.
C5_ChildrenDiff ==
    Succeeded("Update") =>
        \A i \in 1..Len(last.s.groups) :
            MemberDiff("GetGroupChildren", "AddChildToGroup", "RemoveChildFromGroup",
                       last.s.groups[i].id, last.s.groups[i].children)

C5_Witness ==
    /\ Succeeded("Update")
    /\ \E k \in CallsOf({"GetGroupChildren"}) : \E i \in 1..Len(last.s.groups) :
         /\ Calls[k].a = last.s.groups[i].id
         /\ Names(Calls[k].list) \ last.s.groups[i].children # {}
         /\ Names(Calls[k].list) \cap last.s.groups[i].children # {}

\* C6: in a successful Update, for every reconciled host with fetched current
\* groups C and declared groups D, exactly one add-group-to-host call is
\* issued for each name of D \ C, exactly one remove-group-from-host call for
\* each name of C \ D, and none for a name of both.
C6_HostGroupsDiff ==
    Succeeded("Update") =>
        \A i \in 1..Len(last.s.hosts) :
            MemberDiff("GetHostGroups", "AddGroupToHost", "RemoveGroupFromHost",
                       last.s.hosts[i].id, last.s.hosts[i].groups)

C6_Witness ==
    /\ Succeeded("Update")
    /\ \E k \in CallsOf({"GetHostGroups"}) : \E i \in 1..Len(last.s.hosts) :
         /\ Calls[k].a = last.s.hosts[i].id
         /\ Names(Calls[k].list) \ last.s.hosts[i].groups # {}
         /\ Names(Calls[k].list) \cap last.s.hosts[i].groups # {}

Ids(list) == {list[k].id : k \in 1..Len(list)}

\* The delete calls of the latest invocation are one for every fetched
\* object whose id is not among the reconciled ones, and no other.
DeletedById(deleteOp, fetched, reconciled) ==
    /\ \A id \in Ids(fetched) :
         Cardinality({j \in CallsOf({deleteOp}) : Calls[j].a = id}) =
             IF id \in Ids(reconciled) THEN 0 ELSE 1
    /\ \A j \in CallsOf({deleteOp}) : Calls[j].a \in Ids(fetched)

\* C7: in a successful Update the group diff is keyed by id: every group the
\* current-groups fetch returned whose id is not the id of a reconciled
\* desired group is deleted exactly once, and no group whose id is one of
\* them is deleted.
C7_GroupsDeletedById ==
    Succeeded("Update") => DeletedById("DeleteGroup", last.s.current, last.s.groups)

C7_Witness ==
    /\ Succeeded("Update")
    /\ CallsOf({"DeleteGroup"}) # {}
    /\ Ids(last.s.current) \cap Ids(last.s.groups) # {}

\* The create or update calls of the latest invocation, from position
\* first + 1 on, are one per desired object in order: a create when the
\* carried id is not in the fetched set, an update of the carried id when it
\* is, and the reconciled object records the id that call returned.
CreatedOrUpdated(createOp, updateOp, first, desired, fetched, reconciled) ==
    /\ Cardinality(CallsOf({createOp, updateOp})) = Len(desired)
    /\ Len(reconciled) = Len(desired)
    /\ \A i \in 1..Len(desired) :
         LET call == Calls[first + i]
         IN  /\ call.name = desired[i].name
             /\ reconciled[i].id = call.ret
             /\ IF desired[i].id \in Ids(fetched)
                THEN call.op = updateOp /\ call.b = desired[i].id /\ call.ret = desired[i].id
                ELSE call.op = createOp /\ call.ret \notin Ids(fetched)

\* C8: in a successful Update exactly one of create and update is issued for
\* every desired group: a create when its carried id is not in the fetched
\* current set (no carried id included), an update of the carried id when it
\* is; the id recorded for the group is the one that call returned.
C8_GroupsCreatedOrUpdated ==
    Succeeded("Update") =>
        CreatedOrUpdated("CreateGroup", "UpdateGroup", 2,
                         last.plan.groups, last.s.current, last.s.groups)

C8_Witness ==
    /\ Succeeded("Update")
    /\ CallsOf({"CreateGroup"}) # {}
    /\ CallsOf({"UpdateGroup"}) # {}

HostsFetch == CHOOSE k \in CallsOf({"GetInventoryHosts"}) : TRUE

\* C9: in a successful Update hosts are reconciled as groups are: a desired
\* host is created when its carried id is not in the fetched current set and
\* updated by that id when it is, recording the returned id; every fetched
\* host whose id is not the id of a reconciled host is deleted exactly once
\* and no other host is deleted.
C9_HostsReconciled ==
    Succeeded("Update") =>
        /\ Cardinality(CallsOf({"GetInventoryHosts"})) = 1
        /\ CreatedOrUpdated("CreateHost", "UpdateHost", HostsFetch,
                            last.plan.hosts, last.s.currentHosts, last.s.hosts)
        /\ DeletedById("DeleteHost", last.s.currentHosts, last.s.hosts)

C9_Witness ==
    /\ Succeeded("Update")
    /\ CallsOf({"UpdateHost"}) # {}
    /\ CallsOf({"DeleteHost"}) # {}

\* The latest invocation is an Update of an unchanged desired state: the
\* plan is what the state before it records, ids included, and no call of
\* the run was made to fail.
UnchangedUpdate ==
    /\ last.op = "Update" /\ last.s.failAt = 0
    /\ Len(last.plan.groups) = Len(last.prior.groups)
    /\ Len(last.plan.hosts) = Len(last.prior.hosts)
    /\ \A i \in 1..Len(last.plan.groups) :
         /\ last.plan.groups[i].id = last.prior.groups[i].id
         /\ last.plan.groups[i].name = last.prior.groups[i].name
         /\ last.plan.groups[i].children = last.prior.groups[i].children.elems
    /\ \A i \in 1..Len(last.plan.hosts) :
         /\ last.plan.hosts[i].id = last.prior.hosts[i].id
         /\ last.plan.hosts[i].name = last.prior.hosts[i].name
         /\ last.plan.hosts[i].groups = last.prior.hosts[i].groups.elems

\* The desired groups of the latest invocation whose carried id names no
\* group of the server any more.
Vanished ==
    {i \in 1..Len(last.plan.groups) :
        /\ last.plan.groups[i].id # 0
        /\ last.plan.groups[i].id \notin GroupIds(last.before)}

\* The replacement of desired group i is in place: created under an id the
\* server did not have, given its declared children, made a child of every
\* group and a group of every host that declares it, and recorded.
Replaced(i) ==
    LET g == last.plan.groups[i]
        new == last.s.groups[i].id
    IN  /\ Calls[2 + i].op = "CreateGroup" /\ Calls[2 + i].name = g.name
        /\ Calls[2 + i].ret = new
        /\ new # g.id /\ new \notin GroupIds(last.before)
        /\ \A c \in g.children : Cardinality(MemberCalls("AddChildToGroup", new, c)) = 1
        /\ \A j \in 1..Len(last.plan.groups) :
             g.name \in last.plan.groups[j].children =>
                 \E k \in CallsOf({"AddChildToGroup"}) :
                     Calls[k].ok /\ Calls[k].a = last.s.groups[j].id /\ Calls[k].b = new
        /\ \A j \in 1..Len(last.plan.hosts) :
             g.name \in last.plan.hosts[j].groups =>
                 \E k \in CallsOf({"AddGroupToHost"}) :
                     Calls[k].ok /\ Calls[k].a = last.s.hosts[j].id /\ Calls[k].b = new
        /\ state.groups[i].name = g.name /\ state.groups[i].id = new

\* C10: when a group carried in state was deleted on the server out-of-band
\* and the desired state is unchanged, Update does not fail: it creates a
\* replacement group with a new id, adds the group's declared children under
\* the new id, adds the new id to every group that declares it as a child and
\* to every host that declares it, and the snapshot carries the new id.
C10_ReplacesVanishedGroup ==
    (UnchangedUpdate /\ Vanished # {}) =>
        /\ last.s.err = ""
        /\ \A i \in Vanished : Replaced(i)

\* ---- C11

\* The calls of the latest Update that reconciled a group: its creates and
\* updates that the server accepted, in the order of the desired groups.
Reconciled == {j \in CallsOf({"CreateGroup", "UpdateGroup"}) : Calls[j].ok}

\* The reconcile call a name resolves to: the first of that name.
Resolves(name, j) ==
    /\ j \in Reconciled /\ Calls[j].name = name
    /\ \A k \in Reconciled : Calls[k].name = name => j <= k

\* The members the plan declares for the owner of a fetch.
DeclaredFor(f) ==
    IF Calls[f].op = "GetGroupChildren"
    THEN UNION {last.plan.groups[i].children :
                   i \in {x \in 1..Len(last.plan.groups) : last.plan.groups[x].name = Calls[f].name}}
    ELSE UNION {last.plan.hosts[i].groups :
                   i \in {x \in 1..Len(last.plan.hosts) : last.plan.hosts[x].name = Calls[f].name}}

AddOpOf(f) == IF Calls[f].op = "GetGroupChildren" THEN "AddChildToGroup" ELSE "AddGroupToHost"

\* The adds that are due after a fetch and name no desired group.
Unresolvable ==
    {<<f, n>> \in CallsOf({"GetGroupChildren", "GetHostGroups"}) \X GroupNames :
        /\ Calls[f].ok
        /\ n \in DeclaredFor(f) \ Names(Calls[f].list)
        /\ \A j \in Reconciled : Calls[j].name # n}

Undecodable(list) == \E i \in 1..Len(list) : VariablesStringToMap(list[i].variables).err

\* C12: in every Create, Update, Read and Delete a call that fails is the
\* last call of the run and is issued once; a run that has failed, on a call,
\* on a name or on variables that do not decode, has issued no call after the
\* failure, reports the error and leaves the persisted state as it was; and a
\* Read that is handed variables that do not decode fails at that point.
C12_FailFast ==
    last.op \in {"Create", "Update", "Read", "Delete"} =>
        /\ \A j \in 1..Len(Calls) :
              ~Calls[j].ok => j = Len(Calls) /\ last.s.err = "call" /\ last.s.errAt = j
        /\ last.s.err # "" =>
              /\ Len(Calls) = last.s.errAt
              /\ state = last.prior
        /\ last.op = "Read" =>
              /\ \A j \in CallsOf({"GetInventory"}) :
                    (Calls[j].ok /\ Undecodable(Calls[j].list)) =>
                        last.s.err = "codec" /\ Len(Calls) = j
              /\ \A j \in CallsOf({"GetInventoryGroups"}) :
                    (Calls[j].ok /\ Undecodable(Calls[j].list)) =>
                        /\ last.s.err # ""
                        /\ CallsOf({"GetInventoryHosts", "GetHostGroups"}) = {}
              /\ \A j \in CallsOf({"GetInventoryHosts"}) :
                    (Calls[j].ok /\ Undecodable(Calls[j].list)) => last.s.err # ""

\* A Read went through the children of the groups and then stopped on the
\* variables of a group, which do not decode.
C12_Witness ==
    /\ last.op = "Read"
    /\ last.s.err = "codec"
    /\ CallsOf({"GetGroupChildren"}) # {}
    /\ \A j \in 1..Len(Calls) : Calls[j].ok

\* ---- C13

\* C13: an Update that completes without a failed call, right after an
\* Update of the same desired state that returned on a failed call after
\* some change had been applied, leaves the remote inventory equal to the
\* desired state: no group or host twice, none left over.
C13_RetryConverges ==
    (last.retry /\ last.s.err = "") => Converged(last.plan, last.s.r)

\* ---- C14

PlanGroupNames(plan) == {plan.groups[i].name : i \in 1..Len(plan.groups)}

\* The declared pairs whose member no declared group is named after.
Undeclared(plan, pairs) ==
    {k \in 1..Len(pairs) : pairs[k].member \notin PlanGroupNames(plan)}

Undoing == {"DeleteInventory", "DeleteGroup", "DeleteHost",
            "RemoveChildFromGroup", "RemoveGroupFromHost"}

\* What the accepted create calls of the latest run made is still on the server.
NothingRolledBack ==
    /\ \A j \in CallsOf({"CreateInventory"}) : Calls[j].ok => Calls[j].ret \in last.s.r.invs
    /\ \A j \in CallsOf({"CreateGroup"}) : Calls[j].ok => Calls[j].ret \in GroupIds(last.s.r)
    /\ \A j \in CallsOf({"CreateHost"}) : Calls[j].ok => Calls[j].ret \in HostIds(last.s.r)
    /\ \A j \in CallsOf({"AddChildToGroup"}) :
          Calls[j].ok => <<Calls[j].a, Calls[j].b>> \in last.s.r.children
    /\ \A j \in CallsOf({"AddGroupToHost"}) :
          Calls[j].ok => <<Calls[j].a, Calls[j].b>> \in last.s.r.hostGroups

\* C14: in a Create a child or host-group name that no created group has, and
\* an associate call that fails, end the handler with an error: the
\* associate call for that name is not issued, no later call is issued, and
\* nothing is deleted or disassociated: what was made stays on the server.
C14_CreateAssociateFatal ==
    last.op = "Create" =>
        LET plan == last.plan
            cp == ChildPairs(plan)
            hp == HostGroupPairs(plan)
            c0 == 1 + Len(plan.groups)
            a0 == c0 + Len(cp) + Len(plan.hosts)
        IN  /\ \A k \in Undeclared(plan, cp) :
                  /\ last.s.err # ""
                  /\ Len(Calls) < c0 + k
                  /\ CallsOf({"CreateHost", "AddGroupToHost"}) = {}
                  /\ \A j \in CallsOf({"AddChildToGroup"}) : Calls[j].name # cp[k].member
            /\ \A k \in Undeclared(plan, hp) :
                  /\ last.s.err # ""
                  /\ Len(Calls) < a0 + k
                  /\ \A j \in CallsOf({"AddGroupToHost"}) : Calls[j].name # hp[k].member
            /\ \A j \in CallsOf({"AddChildToGroup", "AddGroupToHost"}) :
                  ~Calls[j].ok => last.s.err # "" /\ j = Len(Calls)
            /\ last.s.err # "" =>
                  /\ CallsOf(Undoing) = {}
                  /\ NothingRolledBack
                  /\ state = last.prior

\* A Create stops at a child that no declared group is named after, with
\* the inventory and the groups it has made left on the server.
C14_Witness ==
    /\ last.op = "Create"
    /\ last.s.err = "resolve"
    /\ Undeclared(last.plan, ChildPairs(last.plan)) # {}
    /\ \E j \in CallsOf({"CreateGroup"}) : Calls[j].ok /\ Calls[j].ret \in GroupIds(last.s.r)
    /\ Calls[Len(Calls)].ok

\* ---- C17

\* C17: a Read issues only get and list calls, and leaves the server as it
\* found it, whether it succeeds or fails.
C17_ReadMutatesNothing ==
    last.op = "Read" =>
        /\ \A j \in 1..Len(Calls) : Calls[j].op \in Fetching
        /\ last.s.r = last.before

\* A Read went through the groups and hosts of an inventory that has both.
C17_Witness ==
    /\ Succeeded("Read")
    /\ CallsOf({"GetGroupChildren"}) # {}
    /\ CallsOf({"GetHostGroups"}) # {}
    /\ last.s.r.children # {}

\* ---- C18

\* The snapshot lists these objects of a listing, one for one and in order,
\* each with the names that the fetch of its members returned.
Projects(objects, listOp, memberOp, members(_)) ==
    \E l \in CallsOf({listOp}) :
        /\ CallsOf({listOp}) = {l}
        /\ Len(objects) = Len(Calls[l].list)
        /\ \A i \in 1..Len(objects) :
              /\ objects[i].id = Calls[l].list[i].id
              /\ objects[i].name = Calls[l].list[i].name
              /\ objects[i].inventory = Calls[l].list[i].inventory
              /\ \E f \in CallsOf({memberOp}) :
                    /\ Calls[f].a = objects[i].id /\ Calls[f].ok
                    /\ members(objects[i]) = Names(Calls[f].list)

\* C18: the snapshot of a successful Read has exactly the groups that
\* list-groups returned, each with exactly the names that list-children
\* returned for it, and exactly the hosts that list-hosts returned, each with
\* the names that list-host-groups returned, whatever the prior state was.
C18_ReadProjects ==
    Succeeded("Read") =>
        /\ Projects(state.groups, "GetInventoryGroups", "GetGroupChildren",
                    LAMBDA g : g.children.elems)
        /\ Projects(state.hosts, "GetInventoryHosts", "GetHostGroups",
                    LAMBDA h : h.groups.elems)
        /\ \A i \in 1..Len(state.groups) :
              state.groups[i].children.null <=> state.groups[i].children.elems = {}

\* A Read replaced a prior state that said something else, and a group of
\* its snapshot has children.
C18_Witness ==
    /\ Succeeded("Read")
    /\ state # last.prior
    /\ \E i \in 1..Len(state.groups) : state.groups[i].children.elems # {}
    /\ \E i \in 1..Len(state.hosts) : state.hosts[i].groups.elems # {}

\* ---- C16

\* The mappings the configurations declare.
DeclaredMappings == {Declared(n) : n \in GroupNames \cup HostNames}

\* A schema object of the snapshot shows the model it was built from with
\* every empty attribute null and every other attribute as it was.
Collapsed(out, in, members, inMembers) ==
    /\ out.id = in.id /\ out.name = in.name /\ out.inventory = in.inventory
    /\ out.description.null <=> in.description = ""
    /\ out.description.value = in.description
    /\ members.null <=> inMembers = {}
    /\ members.elems = inMembers
    /\ \E m \in DeclaredMappings :
          /\ VariablesMapToString(m) = in.variables
          /\ out.variables.elems = m.elems
          /\ out.variables.null <=> DOMAIN m.elems = {}

\* C16: in the snapshot of a successful Create, Update or Read each group and
\* host shows an empty description, variables without entries and an empty
\* list of children or groups as null, and every other value of the model it
\* was built from unchanged.
C16_EmptiesCollapse ==
    (last.op \in {"Create", "Update", "Read"} /\ last.s.err = "") =>
        /\ Len(state.groups) = Len(last.s.groups)
        /\ Len(state.hosts) = Len(last.s.hosts)
        /\ \A i \in 1..Len(state.groups) :
              Collapsed(state.groups[i], last.s.groups[i],
                        state.groups[i].children, last.s.groups[i].children)
        /\ \A i \in 1..Len(state.hosts) :
              Collapsed(state.hosts[i], last.s.hosts[i],
                        state.hosts[i].groups, last.s.hosts[i].groups)

\* A snapshot with a group that has a description, variables and children,
\* and a group declared with variables without entries that has none of them.
C16_Witness ==
    /\ last.op \in {"Create", "Update", "Read"} /\ last.s.err = ""
    /\ \E i \in 1..Len(state.groups) :
          /\ ~state.groups[i].description.null
          /\ ~state.groups[i].variables.null
          /\ ~state.groups[i].children.null
    /\ \E i \in 1..Len(state.groups) :
          /\ last.s.groups[i].variables = <<LBrace, RBrace>>
          /\ state.groups[i].description.null
          /\ state.groups[i].variables.null
          /\ state.groups[i].children.null

\* ---- C15

\* The member calls of one owner: the fetch of its members, and the calls
\* that change them.
MemberFetches(fetchOp, owner) == {f \in CallsOf({fetchOp}) : Calls[f].a = owner /\ Calls[f].ok}

MemberChanges(ops, owner) == {j \in CallsOf(ops) : Calls[j].a = owner}

\* A fetch of the owner's members that no change of them follows returned
\* exactly these names.
FetchedFresh(fetchOp, changeOps, owner, names) ==
    \E f \in MemberFetches(fetchOp, owner) :
        /\ \A j \in MemberChanges(changeOps, owner) : j < f
        /\ names = Names(Calls[f].list)

\* C15 as stated: the snapshot of a successful Create or Update gives every
\* group the children names that a fetch after the mutations returned, and
\* every host the group names that such a fetch returned.
C15_SnapshotFetchedFresh ==
    (last.op \in {"Create", "Update"} /\ last.s.err = "") =>
        /\ \A i \in 1..Len(state.groups) :
              FetchedFresh("GetGroupChildren", {"AddChildToGroup", "RemoveChildFromGroup"},
                           state.groups[i].id, state.groups[i].children.elems)
        /\ \A i \in 1..Len(state.hosts) :
              FetchedFresh("GetHostGroups", {"AddGroupToHost", "RemoveGroupFromHost"},
                           state.hosts[i].id, state.hosts[i].groups.elems)

\* C15, amended: the snapshot of a successful Create or Update gives every
\* group the children names the plan declares and every host the group names
\* the plan declares; a Create fetches no members at all, and an Update
\* fetches the members of an owner only before it changes them.
C15_SnapshotDeclared ==
    (last.op \in {"Create", "Update"} /\ last.s.err = "") =>
        /\ Len(state.groups) = Len(last.plan.groups)
        /\ Len(state.hosts) = Len(last.plan.hosts)
        /\ \A i \in 1..Len(state.groups) :
              /\ state.groups[i].name = last.plan.groups[i].name
              /\ state.groups[i].children.elems = last.plan.groups[i].children
              /\ \A f \in MemberFetches("GetGroupChildren", state.groups[i].id) :
                    \A j \in MemberChanges({"AddChildToGroup", "RemoveChildFromGroup"},
                                           state.groups[i].id) : f < j
        /\ \A i \in 1..Len(state.hosts) :
              /\ state.hosts[i].name = last.plan.hosts[i].name
              /\ state.hosts[i].groups.elems = last.plan.hosts[i].groups
              /\ \A f \in MemberFetches("GetHostGroups", state.hosts[i].id) :
                    \A j \in MemberChanges({"AddGroupToHost", "RemoveGroupFromHost"},
                                           state.hosts[i].id) : f < j
        /\ last.op = "Create" => CallsOf({"GetGroupChildren", "GetHostGroups"}) = {}

\* An Update added a child after it had fetched the children, and its
\* snapshot names that child.
C15_Witness ==
    /\ Succeeded("Update")
    /\ \E j \in CallsOf({"AddChildToGroup"}) :
          /\ Calls[j].ok
          /\ MemberFetches("GetGroupChildren", Calls[j].a) # {}
          /\ \E i \in 1..Len(state.groups) :
                /\ state.groups[i].id = Calls[j].a
                /\ Calls[j].name \in state.groups[i].children.elems

\* C19: decoding the encoding of a variables mapping yields that mapping,
\* for every mapping, the empty one included.
C19_RoundTrip ==
    codecStep = "decoded" => ~mapVariables.err /\ mapVariables.value = resourceVariables

\* C19, as the code has it: decoding the encoding of a variables mapping
\* never errs and yields that mapping when it has an entry or is null; the
\* known mapping without entries comes back as null.
C19_RoundTripButEmpty ==
    codecStep = "decoded" =>
        /\ ~mapVariables.err
        /\ mapVariables.value = IF DOMAIN resourceVariables.elems = {} THEN MapNull
                                ELSE resourceVariables

C19_Witness ==
    /\ codecStep = "decoded"
    /\ Cardinality(DOMAIN resourceVariables.elems) = 1
    /\ \E k \in DOMAIN resourceVariables.elems : resourceVariables.elems[k] = ""

\* C20: the empty variables mapping (a null attribute, or a known mapping
\* without entries) is encoded as the absent wire form (no text, or at most
\* a JSON null), never as the empty object.
C20_EmptyEncodesAbsent ==
    (codecStep = "encoded" /\ DOMAIN resourceVariables.elems = {}) =>
        /\ variablesJson # <<LBrace, RBrace>>
        /\ variablesJson \in {<<>>, <<JsonNull>>}

\* ---- C21

\* C21: decoding variables text that is absent (null) or empty yields a
\* mapping without entries and no error.
C21_EmptyDecodes ==
    (codecStep \in {"parsed", "decoded"} /\ variablesJson \in {<<>>, <<JsonNull>>}) =>
        /\ ~mapVariables.err
        /\ DOMAIN mapVariables.value.elems = {}

\* ---- C22

\* The positions of the working set at which the name stands.
Occurrences == {i \in 1..Len(newGroups) : newGroups[i].name = childName}

\* C22: looking up a name that stands once in the working set returns the id
\* of the group that has it and no error; looking up a name that no group of
\* the set has returns an error that names the name, and id 0, which is the
\* id of no group.
C22_ResolvesOnceOrFails ==
    resolveStep \in {"resolved", "associated"} =>
        /\ Cardinality(Occurrences) = 1 =>
              /\ ~childId.err
              /\ \A i \in Occurrences : childId.id = newGroups[i].id
        /\ Occurrences = {} =>
              /\ childId.err
              /\ childId.named = childName
              /\ childId.id = 0
              /\ \A i \in 1..Len(newGroups) : childId.id # newGroups[i].id

\* A lookup of a name that no group of a set of groups has, done.
C22_Witness ==
    /\ resolveStep = "resolved"
    /\ Len(newGroups) > 1
    /\ Occurrences = {}
    /\ childId.err

\* ---- C28

\* C28: looking up a name that several groups of the working set have
\* returns the id of the first of them in the order of the set and no error,
\* and the add pass of Create and of Update for that name, of children and
\* of host groups, issues its one call with that id.
C28_FirstMatchWins ==
    (resolveStep \in {"resolved", "associated"} /\ Cardinality(Occurrences) > 1) =>
        LET first == CHOOSE i \in Occurrences : \A j \in Occurrences : i <= j
        IN  /\ ~childId.err
            /\ childId.id = newGroups[first].id
            /\ resolveStep = "associated" =>
                  /\ added.err = ""
                  /\ Len(added.calls) = 1
                  /\ added.calls[1].b = newGroups[first].id
                  /\ added.calls[1].name = childName
                  /\ added.calls[1].ok

\* An add pass of an Update for a name that two groups have, the first of
\* which is not the first group of the set.
C28_Witness ==
    /\ resolveStep = "associated"
    /\ added.path = "UpdateHostGroups"
    /\ Cardinality(Occurrences) = 2
    /\ 1 \notin Occurrences

\* C26: no add-child call of a Create or of an Update names the same id as
\* parent and as child, whatever the declared children are, a group's own
\* name included.
C26_NoSelfChild ==
    last.op \in {"Create", "Update"} =>
        \A j \in CallsOf({"AddChildToGroup"}) : Calls[j].a # Calls[j].b

\* The objects of the desired list whose carried id is the id of an object
\* the server holds for the inventory are recorded under that id after an
\* update call for it, and every object the server held for the inventory
\* whose id no desired object is recorded under is gone.
InPlace(createOp, updateOp, desired, reconciled, held, left) ==
    /\ \A i \in 1..Len(desired) :
         desired[i].id \in {o.id : o \in held} =>
             /\ reconciled[i].id = desired[i].id
             /\ \E j \in CallsOf({updateOp}) : Calls[j].ok /\ Calls[j].b = desired[i].id
             /\ \A j \in CallsOf({createOp}) : Calls[j].ok => Calls[j].ret # reconciled[i].id
    /\ \A o \in held : o.id \notin Ids(reconciled) => o.id \notin {x.id : x \in left}

\* C27: in a successful Update a desired group (host) whose carried id is
\* the id of a group (host) the server holds for the inventory is updated
\* under that id and not created again, and every group (host) the server
\* held for the inventory that is not a desired one is deleted, however many
\* groups (hosts) the inventory holds.
C27_InPlaceOnEveryPage ==
    Succeeded("Update") =>
        /\ InPlace("CreateGroup", "UpdateGroup", last.plan.groups, last.s.groups,
                   GroupsOf(last.before, last.plan.id), GroupsOf(last.s.r, last.plan.id))
        /\ InPlace("CreateHost", "UpdateHost", last.plan.hosts, last.s.hosts,
                   HostsOf(last.before, last.plan.id), HostsOf(last.s.r, last.plan.id))

C24_InventoryUpdatedFirst ==
    last.op = "Update" =>
        /\ Len(Calls) >= 1
        /\ Calls[1].op = "UpdateInventory"
        /\ Calls[1].a = last.plan.id /\ last.plan.id = last.prior.id
        /\ CallsOf({"UpdateInventory"}) = {1}
        /\ IF Calls[1].ok
           THEN /\ Calls[1].list[1].variables = VariablesMapToString(last.plan.variables)
                /\ Calls[1].ret = last.plan.id
           ELSE /\ Len(Calls) = 1
                /\ last.s.err = "call"
                /\ last.s.r = last.before

C24_Witness ==
    /\ last.op = "Update" /\ ~Calls[1].ok
    /\ GroupsOf(last.before, last.plan.id) # {}
    /\ HostsOf(last.before, last.plan.id) # {}
    /\ last.plan.groups # <<>>

\* The member a remove call names is one that an earlier fetch of the
\* owner's members returned, under the id the fetch gave for it.
FetchedMember(fetchOp, j) ==
    \E f \in MemberFetches(fetchOp, Calls[j].a) :
        /\ f < j
        /\ \E k \in 1..Len(Calls[f].list) :
              Calls[f].list[k].id = Calls[j].b /\ Calls[f].list[k].name = Calls[j].name

RemoveOpOf(f) ==
    IF Calls[f].op = "GetGroupChildren" THEN "RemoveChildFromGroup" ELSE "RemoveGroupFromHost"

\* C29: every remove-child and remove-group-from-host call of an Update
\* carries the id under which the fetch of the owner's current members
\* returned that member; an Update ends on a name that does not resolve only
\* when a declared member that is due names no desired group, and in an
\* Update without error every fetched member that is not declared, a
\* desired group or not, is removed by the id the fetch gave.
C29_RemovesByFetchedId ==
    last.op = "Update" =>
        /\ \A j \in CallsOf({"RemoveChildFromGroup"}) : FetchedMember("GetGroupChildren", j)
        /\ \A j \in CallsOf({"RemoveGroupFromHost"}) : FetchedMember("GetHostGroups", j)
        /\ last.s.err = "resolve" => Unresolvable # {}
        /\ last.s.err = "" =>
              \A f \in CallsOf({"GetGroupChildren", "GetHostGroups"}) :
                 \A k \in 1..Len(Calls[f].list) :
                    Calls[f].list[k].name \notin DeclaredFor(f) =>
                        \E j \in CallsOf({RemoveOpOf(f)}) :
                           /\ j > f /\ Calls[j].ok
                           /\ Calls[j].a = Calls[f].a /\ Calls[j].b = Calls[f].list[k].id

\* An Update without error removes a child whose name no desired group has.
C29_Witness ==
    /\ Succeeded("Update")
    /\ \E j \in CallsOf({"RemoveChildFromGroup"}) :
          Calls[j].ok /\ Calls[j].name \notin PlanGroupNames(last.plan)

GroupOps == {"GetInventoryGroups", "CreateGroup", "UpdateGroup", "DeleteGroup",
             "GetGroupChildren", "AddChildToGroup", "RemoveChildFromGroup"}

HostOps == {"GetInventoryHosts", "CreateHost", "UpdateHost", "DeleteHost",
            "GetHostGroups", "AddGroupToHost", "RemoveGroupFromHost"}

\* Every call of the first kind comes before every call of the second.
Precede(first, second) == \A i \in CallsOf(first), j \in CallsOf(second) : i < j

\* C30: in every Update all group create and update calls come before all
\* group delete calls; all group deletes come before every list-children
\* fetch and every add-child and remove-child call; every add-child and
\* remove-child call follows a list-children fetch for its own parent with
\* nothing in between but add and remove calls for that parent; and every
\* group call comes before the list-hosts fetch and every host call.
C30_UpdatePhases ==
    last.op = "Update" =>
        /\ Precede({"CreateGroup", "UpdateGroup"}, {"DeleteGroup"})
        /\ Precede({"DeleteGroup"},
                   {"GetGroupChildren", "AddChildToGroup", "RemoveChildFromGroup"})
        /\ \A k \in CallsOf({"AddChildToGroup", "RemoveChildFromGroup"}) :
              \E f \in CallsOf({"GetGroupChildren"}) :
                 /\ f < k /\ Calls[f].a = Calls[k].a
                 /\ \A m \in (f + 1)..(k - 1) :
                       /\ Calls[m].op \in {"AddChildToGroup", "RemoveChildFromGroup"}
                       /\ Calls[m].a = Calls[k].a
        /\ Precede(GroupOps, HostOps)
        /\ Precede({"GetInventoryHosts"}, HostOps \ {"GetInventoryHosts"})

C30_Witness ==
    /\ Succeeded("Update")
    /\ CallsOf({"CreateGroup", "UpdateGroup"}) # {}
    /\ CallsOf({"DeleteGroup"}) # {}
    /\ CallsOf({"AddChildToGroup", "RemoveChildFromGroup"}) # {}
    /\ CallsOf({"CreateHost", "UpdateHost"}) # {}

\* What the server holds for an inventory: its variables, its groups and
\* hosts, and the associations of these.
Kept(r, inv) ==
    [variables |-> IF inv \in r.invs THEN r.invVars[inv] ELSE <<>>,
     groups |-> GroupsOf(r, inv),
     hosts |-> HostsOf(r, inv),
     children |-> {e \in r.children : e[1] \in {g.id : g \in GroupsOf(r, inv)}},
     hostGroups |-> {e \in r.hostGroups : e[1] \in {h.id : h \in HostsOf(r, inv)}}]

\* The same with the ids the server gave left out: the groups with the
\* names of their children, the hosts with the names of their groups, and
\* how many there are of each.
KeptByName(r, inv) ==
    [variables |-> IF inv \in r.invs THEN r.invVars[inv] ELSE <<>>,
     groups |-> {[name |-> g.name, description |-> g.description,
                  variables |-> g.variables, children |-> ChildNames(r, g.id)] :
                    g \in GroupsOf(r, inv)},
     hosts |-> {[name |-> h.name, description |-> h.description,
                 variables |-> h.variables, groups |-> HostGroupNames(r, h.id)] :
                   h \in HostsOf(r, inv)},
     counted |-> <<Cardinality(GroupsOf(r, inv)), Cardinality(HostsOf(r, inv))>>]

\* A sequence of calls with the ids left out: what was called, for which
\* name, whether it succeeded and what it listed.
CallsByName(calls) ==
    [k \in 1..Len(calls) |->
        [op |-> calls[k].op, name |-> calls[k].name, ok |-> calls[k].ok,
         list |-> [x \in 1..Len(calls[k].list) |-> [calls[k].list[x] EXCEPT !.id = 0]]]]

\* A snapshot with the ids of its groups and hosts left out.
StateByName(st) ==
    [id |-> st.id,
     groups |-> [k \in 1..Len(st.groups) |-> [st.groups[k] EXCEPT !.id = 0]],
     hosts |-> [k \in 1..Len(st.hosts) |-> [st.hosts[k] EXCEPT !.id = 0]]]

Started == DOMAIN alone

\* The first calls the invocation issues alone, as many as it has issued.
AloneSoFar(i) == SubSeq(alone[i].calls, 1, Min(Len(delivered[i]), Len(alone[i].calls)))

\* The ids of groups and of hosts in the arguments of a call, and the
\* inventory in them.
GroupArgs(c) ==
    IF c.op \in {"DeleteGroup", "GetGroupChildren"} THEN {c.a}
    ELSE IF c.op \in {"AddChildToGroup", "RemoveChildFromGroup"} THEN {c.a, c.b}
    ELSE IF c.op \in {"UpdateGroup", "AddGroupToHost", "RemoveGroupFromHost"} THEN {c.b}
    ELSE {}

HostArgs(c) ==
    IF c.op \in {"DeleteHost", "GetHostGroups", "AddGroupToHost", "RemoveGroupFromHost"}
    THEN {c.a}
    ELSE IF c.op = "UpdateHost" THEN {c.b}
    ELSE {}

InventoryArgs(c) ==
    IF c.op \in {"UpdateInventory", "GetInventoryGroups", "GetInventoryHosts",
                 "CreateGroup", "CreateHost", "UpdateGroup", "UpdateHost"}
    THEN {c.a} ELSE {}

\* The ids an invocation's create calls of this kind returned.
Made(i, op) ==
    {delivered[i][k].ret : k \in {x \in 1..Len(delivered[i]) :
                                     delivered[i][x].op = op /\ delivered[i][x].ok}}

\* Every call of the invocation names its own inventory, groups and hosts
\* that were of its inventory when it started or that it created, and lists
\* only objects of its inventory.
KeepsToItsOwn(i) ==
    \A k \in 1..Len(delivered[i]) :
        /\ InventoryArgs(delivered[i][k]) \subseteq {jobs[i].id}
        /\ GroupArgs(delivered[i][k]) \subseteq
               {g.id : g \in GroupsOf(alone[i].after[1], jobs[i].id)} \cup Made(i, "CreateGroup")
        /\ HostArgs(delivered[i][k]) \subseteq
               {h.id : h \in HostsOf(alone[i].after[1], jobs[i].id)} \cup Made(i, "CreateHost")
        /\ \A x \in 1..Len(delivered[i][k].list) :
              delivered[i][k].list[x].inventory = jobs[i].id

\* C25 as stated: of two Updates for two inventories whose calls the server
\* takes in any order, each issues the calls it issues alone, returns the
\* snapshot it returns alone and leaves of its inventory what it leaves
\* alone, and no call of either names or lists a group or host of the other
\* inventory.
C25_SameAsAlone ==
    \A i \in Started :
        /\ delivered[i] = AloneSoFar(i)
        /\ Kept(remote, jobs[i].id) = Kept(alone[i].after[Len(delivered[i]) + 1], jobs[i].id)
        /\ returned[i].done =>
              /\ delivered[i] = alone[i].calls
              /\ returned[i].err = alone[i].err
              /\ returned[i].state = alone[i].state
        /\ KeepsToItsOwn(i)

\* C25, amended: each of the two Updates issues the calls it issues alone,
\* returns the snapshot it returns alone and leaves of its inventory what it
\* leaves alone, up to the ids the server gives to the groups and hosts
\* created meanwhile, and with the very ids as long as the other Update has
\* created nothing; at every moment the server holds for each inventory
\* what its own Update alone has made of it by then; and no call of either
\* names or lists a group or host of the other inventory.
C25_SameUpToIds ==
    \A i \in Started :
        /\ CallsByName(delivered[i]) = CallsByName(AloneSoFar(i))
        /\ KeptByName(remote, jobs[i].id) =
               KeptByName(alone[i].after[Len(delivered[i]) + 1], jobs[i].id)
        /\ returned[i].done =>
              /\ Len(delivered[i]) = Len(alone[i].calls)
              /\ returned[i].err = alone[i].err
              /\ StateByName(returned[i].state) = StateByName(alone[i].state)
        /\ (\A j \in Started \ {i} : Made(j, "CreateGroup") \cup Made(j, "CreateHost") = {}) =>
              /\ delivered[i] = AloneSoFar(i)
              /\ Kept(remote, jobs[i].id) =
                     Kept(alone[i].after[Len(delivered[i]) + 1], jobs[i].id)
              /\ returned[i].done => returned[i].state = alone[i].state
        /\ KeepsToItsOwn(i)

\* Both Updates have returned without error, and each has been given ids
\* other than those it is given alone: each created a group or host after
\* the other had.
C25_Witness ==
    /\ Started = Invocations
    /\ \A i \in Invocations :
          /\ returned[i].done /\ returned[i].err = ""
          /\ returned[i].state # alone[i].state

\* C31: after a successful Update the ids of the groups in the snapshot it
\* returned are the ids of the groups the server holds for the inventory,
\* and the ids of the hosts in it those of the hosts the server holds.
C31_SnapshotIdsAreRemoteIds ==
    Succeeded("Update") =>
        /\ Ids(GroupsToSchema(last.s.groups)) = {g.id : g \in GroupsOf(last.s.r, last.plan.id)}
        /\ Ids(HostsToSchema(last.s.hosts)) = {h.id : h \in HostsOf(last.s.r, last.plan.id)}

\* Two snapshots hold the same inventory, the same groups and the same
\* hosts, each with its id, members, description and variables (groups and
\* hosts are sets in the schema: their order does not count).
SameSnapshot(a, b) ==
    /\ a.id = b.id
    /\ Len(a.groups) = Len(b.groups) /\ Range(a.groups) = Range(b.groups)
    /\ Len(a.hosts) = Len(b.hosts) /\ Range(a.hosts) = Range(b.hosts)

\* A Read follows a successful Create or Update at once: the state is the
\* snapshot that handler returned and the server is as it left it.
ReadsBack ==
    /\ last.op \in {"Create", "Update"} /\ last.s.err = ""
    /\ remote = last.s.r
    /\ last'.op = "Read" /\ runs' = runs + 1
    /\ last'.s.failAt = 0

\* C32: a Read that follows a successful Create or Update at once, with
\* nothing done to the server in between and no call failing, succeeds and
\* returns the snapshot the Create or Update returned.
C32_ReadShowsNoDrift ==
    [][ReadsBack => last'.s.err = "" /\ SameSnapshot(state', state)]_vars

\* C33: the state is set only when a handler returns without error: after
\* an invocation that reported an error the state is what it was before it;
\* after a Create, Update or Read without error the state is the snapshot
\* the handler built, and after a Delete without error it is empty.  What
\* the calls before the error did stays done: a Create that returns on an
\* error after create-inventory leaves the inventory, and the groups it
\* created, on the server with no state that refers to them.
C33_StateSetLast ==
    last.op # "none" =>
        /\ IF last.s.err # "" THEN state = last.prior
           ELSE IF last.op = "Delete" THEN state = NoState
           ELSE state = Outcome(last.s).state
        /\ (last.op = "Create" /\ last.s.err # "" /\ Len(Calls) > 0 /\ Calls[1].ok) =>
              /\ remote = last.s.r
              /\ Calls[1].ret \in remote.invs /\ state.id # Calls[1].ret
              /\ \A j \in CallsOf({"CreateGroup"}) :
                    Calls[j].ok => Calls[j].ret \in GroupIds(remote)

\* A Create returned on an error after the server had created the
\* inventory: the server holds an inventory, with a group, that no state
\* refers to.
C33_Witness ==
    /\ last.op = "Create" /\ last.s.err # ""
    /\ state = NoState /\ last.prior = NoState
    /\ Calls[1].ok /\ Calls[1].ret \in remote.invs
    /\ GroupsOf(remote, Calls[1].ret) # {}

\* The objects of this kind that the create calls of the latest invocation
\* made are held by the server under the inventory the call named.
CreatedIn(createOp, held, inv) ==
    \A j \in CallsOf({createOp}) :
        /\ Calls[j].a = inv
        /\ Calls[j].ok => \E o \in held : o.id = Calls[j].ret /\ o.inventory = inv

\* C34: in every Create and Update whose first call, create-inventory or
\* update-inventory, succeeded, every create-group and create-host call
\* names the inventory id that call returned, the server holds the created
\* group or host under that inventory, and every group and host of the
\* snapshot records it.
C34_ScopedToOwnInventory ==
    (last.op \in {"Create", "Update"} /\ Len(Calls) > 0 /\ Calls[1].ok) =>
        /\ Calls[1].op = IF last.op = "Create" THEN "CreateInventory" ELSE "UpdateInventory"
        /\ CreatedIn("CreateGroup", last.s.r.groups, Calls[1].ret)
        /\ CreatedIn("CreateHost", last.s.r.hosts, Calls[1].ret)
        /\ last.s.err = "" =>
              /\ Outcome(last.s).state.id = Calls[1].ret
              /\ \A g \in Range(Outcome(last.s).state.groups) : g.inventory = Calls[1].ret
              /\ \A h \in Range(Outcome(last.s).state.hosts) : h.inventory = Calls[1].ret

C34_Witness ==
    /\ Succeeded("Update")
    /\ \E j \in CallsOf({"CreateGroup"}) : Calls[j].ok
    /\ \E j \in CallsOf({"CreateHost"}) : Calls[j].ok

\* ---- C35

\* The tokens of the members of an object, given as pairs of a key and a
\* value token.
RECURSIVE MemberTokens(_)
MemberTokens(ps) ==
    IF ps = <<>> THEN <<>>
    ELSE <<JsonString(ps[1][1]), Colon, ps[1][2]>>
         \o (IF Len(ps) > 1 THEN <<Comma>> ELSE <<>>) \o MemberTokens(Tail(ps))

\* The JSON objects whose members have these value tokens, written out.
ObjectsOf(values) ==
    {<<LBrace>> \o MemberTokens(ps) \o <<RBrace>> :
        ps \in UNION {[1..k -> Range(VarKeys) \X values] : k \in 0..Len(VarKeys)}}

ObjectsOfStrings == ObjectsOf({JsonString(v) : v \in VarValues})

\* The texts json.Unmarshal takes into a map of strings: the null, and the
\* objects whose values are strings or nulls.
Decodable == {<<JsonNull>>} \cup ObjectsOf({JsonString(v) : v \in VarValues} \cup {JsonNull})

Converted == codecStep \in {"decoded", "parsed", "converted"}

\* C35 as stated: decoding a variables text that is not a JSON object of
\* string values reports a codec error and yields the null mapping, and
\* the handler that decodes it ends with that error.
C35_NotAnObjectOfStringsErrs ==
    (Converted /\ variablesJson \notin ObjectsOfStrings) =>
        /\ mapVariables.err /\ mapVariables.value = MapNull
        /\ codecStep = "converted" => last.s.err = "codec"

\* C35, amended: a variables text is decoded with a codec error exactly
\* when it is neither the null nor an object whose values are strings or
\* nulls; the error comes with the null mapping, and the Create, Read or
\* Update that decodes the text then ends with the error, makes no further
\* call and sets no state. Any other text is decoded and the handler goes on.
C35_UndecodableAborts ==
    Converted =>
        /\ mapVariables.err <=> variablesJson \notin Decodable
        /\ mapVariables.err => mapVariables.value = MapNull
        /\ codecStep = "converted" =>
              IF variablesJson \notin Decodable
              THEN last.s.err = "codec" /\ last.s.calls = <<>> /\ state = NoState
              ELSE last.s.err = "" /\ last.s.calls # <<>> /\ state.id = 2

C35_Witness ==
    /\ codecStep = "converted" /\ last.op = "Update"
    /\ variablesJson = <<LBrace, JsonString("a"), Colon, JsonNumber, RBrace>>
    /\ mapVariables.err /\ mapVariables.value = MapNull
    /\ last.s.err = "codec" /\ last.s.calls = <<>>

\* ---- C36

\* C36: a gateway call returns an error exactly when the transport fails
\* or the status of the response is none of 200, 201, 202 and 204; the error
\* of a status carries the status and the body of the response; with a
\* success status the body of the response is returned; and the handler
\* that made the call ends with the error at that call and sets no state.
C36_ErrorIffNotSuccess ==
    (gatewayStep \in {"returned", "handled"} /\ ~result.panic) =>
        /\ (result.err # NoError) <=>
              (exchange.transport # "ok" \/ exchange.status \notin {200, 201, 202, 204})
        /\ (exchange.transport = "ok" /\ result.err # NoError) =>
              /\ result.err.kind = "status"
              /\ result.err.status = exchange.status /\ result.err.body = exchange.body
        /\ IF result.err = NoError THEN result.body = exchange.body ELSE result.body = NoBody
        /\ gatewayStep = "handled" =>
              IF result.err = NoError THEN last.s.err = ""
              ELSE /\ last.s.err = "call" /\ Len(last.s.calls) = exchange.at
                   /\ ~last.s.calls[exchange.at].ok
                   /\ \A j \in 1..(exchange.at - 1) : last.s.calls[j].ok
                   /\ state = last.prior

C36_Witness ==
    /\ gatewayStep = "handled" /\ last.op = "Update"
    /\ exchange.transport = "ok" /\ exchange.status = 203 /\ exchange.at = 2
    /\ result.err = StatusError(203, "{}")
    /\ last.s.err = "call" /\ Len(last.s.calls) = 2

\* ---- C37

\* The declared groups, hosts and associations of the handler's plan.
DeclaredIn(plan) ==
    Len(plan.groups) + Len(plan.hosts)
    + Cardinality({<<i, c>> \in (1..Len(plan.groups)) \X GroupNames : c \in plan.groups[i].children})
    + Cardinality({<<i, g>> \in (1..Len(plan.hosts)) \X GroupNames : g \in plan.hosts[i].groups})

\* The groups, hosts and associations the calls have fetched.
RECURSIVE FetchedBy(_)
FetchedBy(calls) ==
    IF calls = <<>> THEN 0 ELSE Len(calls[1].list) + FetchedBy(Tail(calls))

\* No two calls of the handler are the same operation on the same entity.
NoRevisit(calls) ==
    \A j, k \in 1..Len(calls) :
        (j < k /\ calls[j].op = calls[k].op) =>
            <<calls[j].a, calls[j].b, calls[j].name>> # <<calls[k].a, calls[k].b, calls[k].name>>

\* C37: a handler that is called returns, with success or an error, once
\* each of its remote calls has returned; it makes no call twice, and at
\* most three calls and two for each declared group and host, one for each
\* declared association and one for each fetched group, host and association.
C37_Terminates ==
    /\ [](/\ NoRevisit(delivered[1])
          /\ Len(delivered[1]) <= 3 + Len(jobs[1].plan.groups) + Len(jobs[1].plan.hosts)
                                    + DeclaredIn(jobs[1].plan) + FetchedBy(delivered[1]))
    /\ (turn = 1) ~> returned[1].done

C37_Witness ==
    /\ returned[1].done /\ returned[1].err = "" /\ jobs[1].op = "Update"
    /\ Len(jobs[1].plan.groups) = 3 /\ Len(delivered[1]) >= 12

====
